---- MODULE Spec2Model ----
(***************************************************************************)
(* Packet manager of the radio telemetry drone comms package:              *)
(* PacketManager (transceiver.py) with its sender worker, receiver worker, *)
(* priority send queue, outstanding-ack table and packet id allocator.     *)
(*                                                                         *)
(* Time.  The wall clock is read in two places.  enqueue_packet reads it   *)
(* for the queue's tie-breaker: only the order of those readings matters,  *)
(* so a reading is a rank that is equal to the previous reading (same      *)
(* clock quantum) or larger.  The retry sweep compares now - send_time     *)
(* with ack_timeout: an outstanding entry carries its age in ticks,        *)
(* saturated at AckTimeout, and a sweep reads `now' once, so no tick falls *)
(* inside a sweep's loop.                                                  *)
(***************************************************************************)
EXTENDS Integers, Sequences, FiniteSets, TLC

\* ------------------------------------------------------------ constants
MAX_PACKET_ID == 2147483647

\* ack_timeout in ticks of the model clock and max_retries, as configured
\* by the retry test of the repository (one timeout period, one retry).
AckTimeout == 1
MaxRetries == 1
\* stop(): the bound of each join, in seconds
JoinTimeout == 2
\* DroneComms.__init__: ack_timeout, which it passes to the interface as its
\* read timeout, in seconds
ReadTimeout == 2

\* ------------------------------------------------------------ bounds
\* messages the user sends plus frames the peer sends, in the runs of one
\* manager with the peer outside the model
MaxOps == 3
\* messages manager A's user may send in the two-manager runs
LinkMsgs == 1
\* frames in flight in one direction of the link
WireCap == 1
\* calls of generate_packet_id per thread in the allocator runs
MaxCalls == 2
\* how far from 1 and from MAX_PACKET_ID the allocator runs start
IdSpread == 3
\* register_*_handler calls in the runs of the dispatch layer
MaxRegs == 2
\* frames the peer sends in the runs of the dispatch layer
MaxFrames == 2
\* calls of stop() in the runs of the life cycle
MaxStops == 2
\* calls of send_* methods in the runs of the send API
MaxSends == 2
\* length of the byte strings given to decode_packet that are not frames
MaxRaw == 9
\* length of the byte strings given to _calculate_crc16_ccitt
MaxCrcLen == 3
\* bytes cut from a frame or put after it
MaxCut == 2
\* writes of the peer and calls of receive_packet in the runs of the frame reader
MaxWrites == 2
MaxReads == 3
\* bytes one _read_data returns in the runs of the frame reader
MaxChunk == 3

Mgrs == {"A", "B"}
Users == {"u1"}
IdThreads == {"t1", "t2"}
None == [kind |-> "none"]

Peer(m) == IF m = "A" THEN "B" ELSE "A"

\* ------------------------------------------------------------ messages
\* The variants of RadioPacket (oneof msg) and the need_ack the send
\* methods give them.
Variants ==
    {"ack_pkt", "syn_rqt", "syn_rsp", "cfg_rqt", "cfg_rsp", "gps_pkt", "ping_pkt",
     "loc_pkt", "str_rqt", "str_rsp", "stp_rqt", "stp_rsp", "err_pkt"}

\* the variants the bounded runs send and inject
SendKinds == {"syn_rqt", "gps_pkt"}

\* the variants with an observer list (DroneComms.__init__, lines 113-156)
ObsVariants == Variants \ {"ack_pkt"}

SendNeedAck(kind) == kind \in {"syn_rqt", "cfg_rqt", "str_rqt", "stp_rqt"}

Packet(kind, pid, need_ack, ack_id) ==
    [kind |-> kind, packet_id |-> pid, need_ack |-> need_ack, ack_id |-> ack_id]

\* PacketManager._get_base: the header of the variant that is set
GetBase(packet) == [packet_id |-> packet.packet_id, need_ack |-> packet.need_ack]

\* _get_base, lines 183-186: ValueError when no known variant is set
GetBaseRaises(packet) == packet.kind \notin Variants

\* ------------------------------------------------------------ packet ids
\* The counter _next_packet_id takes the values 1 .. MAX_PACKET_ID + 1.  The
\* model checker's integers end at MAX_PACKET_ID, so the counter is kept
\* modulo MAX_PACKET_ID + 1: the value 0 stands for MAX_PACKET_ID + 1, the
\* only value of the counter that exceeds MAX_PACKET_ID.
Exceeds(next) == next = 0
Succ(next) == IF next = MAX_PACKET_ID THEN 0 ELSE next + 1

\* generate_packet_id, lines 76-78: the value returned for a counter value
WrapBug(next) == IF Exceeds(next) \/ next = MAX_PACKET_ID THEN 1 ELSE next
Wrap(next) == IF Exceeds(next) THEN 1 ELSE next

\* generate_packet_id as one step under _id_lock: [pid, next]
GeneratePacketId(next) == [pid |-> Wrap(next), next |-> Succ(Wrap(next))]

\* ------------------------------------------------------------ priority queue
\* queue.PriorityQueue keeps a binary heap (heapq) of the tuples
\* (priority, enqueue time, packet).  History: born is the number of puts
\* that had returned when enqueue_packet was entered, seq the rank of the
\* item's own put.
Item(priority, time, packet, born) ==
    [priority |-> priority, time |-> time, packet |-> packet, born |-> born, seq |-> 0]

\* tuple comparison a < b: priority, then time; with both equal it compares
\* the packets, which RadioPacket does not support (TypeError) unless they
\* are equal
LtRaises(a, b) == a.priority = b.priority /\ a.time = b.time /\ a.packet # b.packet
LtBug(a, b) == a.time < b.time \/ (a.time = b.time /\ a.priority < b.priority)
LtNoTime(a, b) == a.priority < b.priority
Lt(a, b) == a.priority < b.priority \/ (a.priority = b.priority /\ a.time < b.time)

Swap(h, i, j) == [h EXCEPT ![i] = h[j], ![j] = h[i]]

\* heapq siftdown: move h[pos] up while it is smaller than its parent
RECURSIVE SiftDown(_, _, _)
SiftDown(h, startpos, pos) ==
    IF pos <= startpos THEN [heap |-> h, raised |-> FALSE]
    ELSE LET parentpos == pos \div 2 IN
         IF LtRaises(h[pos], h[parentpos]) THEN [heap |-> h, raised |-> TRUE]
         ELSE IF Lt(h[pos], h[parentpos]) THEN SiftDown(Swap(h, pos, parentpos), startpos, parentpos)
         ELSE [heap |-> h, raised |-> FALSE]

\* heapq siftup: bubble the smaller child up to a leaf, then sift down
RECURSIVE SiftUpFrom(_, _, _)
SiftUpFrom(h, startpos, pos) ==
    IF 2 * pos > Len(h) THEN SiftDown(h, startpos, pos)
    ELSE LET left == 2 * pos
             right == 2 * pos + 1 IN
         IF right <= Len(h) /\ LtRaises(h[left], h[right]) THEN [heap |-> h, raised |-> TRUE]
         ELSE LET childpos == IF right <= Len(h) /\ ~Lt(h[left], h[right]) THEN right ELSE left
              IN SiftUpFrom(Swap(h, childpos, pos), startpos, childpos)

\* heapq.heappush: append, then sift down; the item stays in the list when
\* the comparison raises
HeapPush(h, item) == SiftDown(Append(h, item), 1, Len(h) + 1)

\* heapq.heappop: the last item replaces the root and is sifted; when a
\* comparison raises, the root item is lost with the exception
HeapPop(h) ==
    LET n == Len(h)
        rest == SubSeq(h, 1, n - 1) IN
    IF n = 1 THEN [heap |-> <<>>, raised |-> FALSE, item |-> h[1]]
    ELSE LET r == SiftUpFrom([rest EXCEPT ![1] = h[n]], 1, 1) IN
         [heap |-> r.heap, raised |-> r.raised, item |-> h[1]]

\* enqueue_packet, line 88
PriorityBug(need_ack) == 0
Priority(need_ack) == IF need_ack THEN 0 ELSE 1

\* ------------------------------------------------------------ outstanding table
\* outstanding_acks is a dict: a sequence of entries in insertion order
EntryBug(packet) == [pid |-> GetBase(packet).packet_id + 1, packet |-> packet, age |-> 0, retries |-> 0]
Entry(packet) == [pid |-> GetBase(packet).packet_id, packet |-> packet, age |-> 0, retries |-> 0]

Keys(d) == {d[i].pid : i \in 1..Len(d)}
IndexOf(d, pid) == CHOOSE i \in 1..Len(d) : d[i].pid = pid

\* d[pid] = entry: in place when the key exists, appended otherwise
DictSet(d, entry) ==
    IF entry.pid \in Keys(d) THEN [d EXCEPT ![IndexOf(d, entry.pid)] = entry]
    ELSE Append(d, entry)

\* del d[pid]
DictDelBug(d, pid) == <<>>
DictDel(d, pid) ==
    LET i == IndexOf(d, pid) IN SubSeq(d, 1, i - 1) \o SubSeq(d, i + 1, Len(d))

\* ------------------------------------------------------------ counters (history)
Count(f, k) == IF k \in DOMAIN f THEN f[k] ELSE 0
Inc(f, k) == [x \in DOMAIN f \cup {k} |-> IF x = k THEN Count(f, k) + 1 ELSE f[x]]

\* ------------------------------------------------------------ state
VARIABLES
    next_packet_id,     \* [Mgrs -> Nat]: PacketManager._next_packet_id
    send_queue,         \* [Mgrs -> heap of items]: PacketManager.send_queue
    outstanding_acks,   \* [Mgrs -> dict]: PacketManager.outstanding_acks
    sender,             \* [Mgrs -> record]: the position of _send_loop
    receiver,           \* [Mgrs -> record]: the position of _recv_loop
    user,               \* [Mgrs -> [Users -> item or None]]: a caller inside enqueue_packet
    wire,               \* [Mgrs -> Seq(packet)]: frames in flight towards a manager
    linked,             \* TRUE: A and B talk to each other; FALSE: the peer is the environment
    last_time,          \* the last reading of time.time() by enqueue_packet
    puts,               \* number of puts into the send queues (history)
    budget,             \* messages the user may still send, frames the outside peer may send
    tx,                 \* [Mgrs -> [pid -> transmissions of that message]] (history)
    timed_out,          \* [Mgrs -> [pid -> calls of on_ack_timeout]] (history)
    delivered,          \* [Mgrs -> [pid -> calls of on_user_packet_received]] (history)
    id_lock,            \* holder of PacketManager._id_lock in the allocator runs
    id_thread,          \* [IdThreads -> record]: a caller inside generate_packet_id
    issued,             \* the values generate_packet_id returned, in order (history)
    handlers,           \* [variant -> Seq(entry)]: the observer lists of a DroneComms
    dispatch,           \* the position of the receiver inside _invoke_handlers
    caller,             \* a user thread inside an unregister_*_handler call
    regs,               \* number of register_*_handler calls so far (history)
    config,             \* the radio_config given to DroneComms.__init__
    ctor,               \* the outcome of DroneComms.__init__
    channel,            \* the radio interface: its state, calls of close(), use after close
    stop_event,         \* PacketManager._stop_event
    threads,            \* the two worker threads in the runs of the life cycle
    stopper,            \* the thread inside stop()
    api,                \* a user thread inside a send_* method of DroneComms
    codec,              \* a call of RadioCodec: its argument and its result
    reader              \* the byte stream of the channel and a call of receive_packet

vars == <<next_packet_id, send_queue, outstanding_acks, sender, receiver, user, wire, linked,
          last_time, puts, budget, tx, timed_out, delivered, id_lock, id_thread, issued,
          handlers, dispatch, caller, regs, config, ctor, channel, stop_event, threads, stopper,
          api, codec, reader>>

mgr_vars == <<send_queue, outstanding_acks, sender, receiver, user, wire, linked,
              last_time, puts, budget, tx, timed_out, delivered>>
id_vars == <<id_lock, id_thread, issued>>
obs_vars == <<handlers, dispatch, caller, regs>>
life_vars == <<config, ctor, channel, stop_event, threads, stopper>>
ext_vars == <<codec, reader>>
api_vars == <<obs_vars, life_vars, api, ext_vars>>

SenderInit == [pc |-> "idle", packet |-> None, it_used |-> 0, it_pos |-> 0,
               to_remove |-> <<>>, exc |-> "none"]
ReceiverInit == [pc |-> "idle", packet |-> None, item |-> None, acks |-> 0, exc |-> "none",
                 acked |-> {}]
IdThreadInit == [pc |-> "idle", pid |-> 0, calls |-> 0]
DispatchInit == [pc |-> "none", kind |-> "none", data |-> None, i |-> 0, to_remove |-> <<>>,
                 snapshot |-> <<>>, called |-> <<>>]
ChannelInit == [state |-> "none", closes |-> 0, late_use |-> FALSE]
ThreadsInit == [sender |-> [pc |-> "unstarted"],
               receiver |-> [pc |-> "unstarted", stage |-> 0, since |-> 0, poll |-> 0,
                            elapsed |-> 0]]
StopperInit == [pc |-> "idle", waited |-> 0, stops |-> 0]
NoReturn == [status |-> "none", packet_id |-> 0, need_ack |-> FALSE, timestamp |-> 0]
NoPacket == [kind |-> "unset", packet_id |-> 0, need_ack |-> FALSE, timestamp |-> 0, value |-> 0]
CodecInit == [op |-> "none", via |-> "none", msg |-> NoPacket, frame |-> <<>>, data |-> <<>>,
              ok |-> FALSE, out |-> NoPacket, crc |-> 0]
ReaderInit == [pc |-> "idle", stream |-> <<>>, pos |-> 0, writes |-> 0, calls |-> 0,
               stage |-> 0, need |-> 0, got |-> <<>>, raw |-> <<>>, start |-> 0,
               ret |-> "unset", out |-> NoPacket, handed |-> FALSE, short |-> FALSE]
ApiInit == [pc |-> "idle", method |-> "none", item |-> None, ret |-> NoReturn]
CallerInit == [pc |-> "idle", kind |-> "none", cb |-> "none", j |-> 0, once |-> FALSE,
               ret |-> "none"]

\* PacketManager.__init__ followed by start()
InitManagers ==
    /\ send_queue = [m \in Mgrs |-> <<>>]
    /\ outstanding_acks = [m \in Mgrs |-> <<>>]
    /\ sender = [m \in Mgrs |-> SenderInit]
    /\ receiver = [m \in Mgrs |-> ReceiverInit]
    /\ user = [m \in Mgrs |-> [u \in Users |-> None]]
    /\ wire = [m \in Mgrs |-> <<>>]
    /\ last_time = 0
    /\ puts = 0
    /\ tx = [m \in Mgrs |-> <<>>]
    /\ timed_out = [m \in Mgrs |-> <<>>]
    /\ delivered = [m \in Mgrs |-> <<>>]
    /\ id_lock = "free"
    /\ id_thread = [t \in IdThreads |-> IdThreadInit]
    /\ issued = <<>>
    /\ handlers = [k \in ObsVariants |-> <<>>]
    /\ dispatch = DispatchInit
    /\ caller = CallerInit
    /\ regs = 0
    /\ config = None
    /\ ctor = "new"
    /\ channel = ChannelInit
    /\ stop_event = FALSE
    /\ threads = ThreadsInit
    /\ stopper = StopperInit
    /\ api = ApiInit
    /\ codec = CodecInit
    /\ reader = ReaderInit

Init ==
    /\ next_packet_id = [m \in Mgrs |-> 1]
    /\ InitManagers
    /\ linked = FALSE
    /\ budget = MaxOps

\* ------------------------------------------------------------ the channel
\* RadioInterface.send_packet that returns: the frame is on the wire to the
\* peer, or lost (a full wire loses it); with the environment as peer it
\* leaves the model
Transmit(m, packet) ==
    /\ tx' = [tx EXCEPT ![m] = Inc(@, GetBase(packet).packet_id)]
    /\ \/ /\ linked /\ Len(wire[Peer(m)]) < WireCap
          /\ wire' = [wire EXCEPT ![Peer(m)] = Append(@, packet)]
       \/ /\ wire' = wire

\* the channel loses the frame at the head of the wire
Lose(m) ==
    /\ wire[m] # <<>>
    /\ wire' = [wire EXCEPT ![m] = Tail(@)]
    /\ UNCHANGED <<next_packet_id, send_queue, outstanding_acks, sender, receiver, user, linked,
                   last_time, puts, budget, tx, timed_out, delivered, id_vars, api_vars>>

\* the frames a peer outside the model may send: Acks for the ids this
\* manager uses (need_ack is a field of every header, so of an Ack's too),
\* and messages of the peer with either need_ack
InPackets ==
    {Packet("ack_pkt", 1, need_ack, a) : a \in 1..MaxOps, need_ack \in BOOLEAN}
    \cup {Packet(k, 1, SendNeedAck(k), 0) : k \in SendKinds}

\* ------------------------------------------------------------ enqueue_packet
\* line 89, the argument: time.time() is the previous reading or a later one
TimeReadings == {last_time, last_time + 1}

\* line 89, the put: the item is in the heap even when the comparison raises
Put(m, item) ==
    /\ send_queue' = [send_queue EXCEPT ![m] = HeapPush(@, [item EXCEPT !.seq = puts + 1]).heap]
    /\ puts' = puts + 1

PutRaises(m, item) == HeapPush(send_queue[m], item).raised

\* a send method of the dispatch layer on a user thread, up to the reading
\* of the clock in enqueue_packet: allocates the id, builds the message
UserSend(m, u) ==
    /\ user[m][u] = None
    /\ budget > 0
    /\ \E kind \in SendKinds, t \in TimeReadings :
         LET g == GeneratePacketId(next_packet_id[m])
             packet == Packet(kind, g.pid, SendNeedAck(kind), 0) IN
         /\ next_packet_id' = [next_packet_id EXCEPT ![m] = g.next]
         /\ user' = [user EXCEPT ![m][u] = Item(Priority(GetBase(packet).need_ack), t, packet, puts)]
         /\ last_time' = t
    /\ budget' = budget - 1
    /\ UNCHANGED <<send_queue, outstanding_acks, sender, receiver, wire, linked, puts,
                   tx, timed_out, delivered, id_vars, api_vars>>

\* the put of enqueue_packet on the user thread; a TypeError goes to the caller
UserPut(m, u) ==
    /\ user[m][u] # None
    /\ Put(m, user[m][u])
    /\ user' = [user EXCEPT ![m][u] = None]
    /\ UNCHANGED <<next_packet_id, outstanding_acks, sender, receiver, wire, linked, last_time,
                   budget, tx, timed_out, delivered, id_vars, api_vars>>

\* ------------------------------------------------------------ sender worker
Die(worker, m, exc) == [worker EXCEPT ![m].pc = "dead", ![m].exc = exc]

\* _send_loop, lines 95-100: get with a timeout; an empty queue starts the
\* retry sweep (line 97, with the iterator of line 114 created); otherwise
\* the item taken is passed to send_packet, which returns or raises
SenderDequeue(m) ==
    /\ sender[m].pc = "idle"
    /\ IF send_queue[m] = <<>>
       THEN /\ sender' = [sender EXCEPT ![m].pc = "sweep",
                                        ![m].it_used = Len(outstanding_acks[m]),
                                        ![m].it_pos = 1,
                                        ![m].to_remove = <<>>]
            /\ UNCHANGED <<send_queue, tx, wire>>
       ELSE LET r == HeapPop(send_queue[m]) IN
            /\ send_queue' = [send_queue EXCEPT ![m] = r.heap]
            /\ IF r.raised
               THEN /\ sender' = Die(sender, m, "TypeError")
                    /\ UNCHANGED <<tx, wire>>
               ELSE \/ /\ Transmit(m, r.item.packet)
                       /\ sender' = IF GetBase(r.item.packet).need_ack
                                    THEN [sender EXCEPT ![m].pc = "track", ![m].packet = r.item.packet]
                                    ELSE sender
                    \/ /\ sender' = Die(sender, m, "OSError")
                       /\ UNCHANGED <<tx, wire>>
    /\ UNCHANGED <<next_packet_id, outstanding_acks, receiver, user, linked, last_time, puts,
                   budget, timed_out, delivered, id_vars, api_vars>>

\* _send_loop, lines 102-108: the entry of the message just transmitted
SenderTrack(m) ==
    /\ sender[m].pc = "track"
    /\ outstanding_acks' = [outstanding_acks EXCEPT ![m] = DictSet(@, Entry(sender[m].packet))]
    /\ sender' = [sender EXCEPT ![m].pc = "idle", ![m].packet = None]
    /\ UNCHANGED <<next_packet_id, send_queue, receiver, user, wire, linked, last_time, puts,
                   budget, tx, timed_out, delivered, id_vars, api_vars>>

\* lines 115-116
Due(info) == info.age >= AckTimeout
MayRetryBug(info) == info.retries <= MaxRetries
MayRetry(info) == info.retries < MaxRetries

\* lines 117-118: retries += 1, send_time = now
RetriedBug(info) == [info EXCEPT !.retries = 0, !.age = 0]
Retried(info) == [info EXCEPT !.retries = @ + 1, !.age = 0]

\* _retry_outstanding_packets, lines 114-121: one turn of the loop over
\* outstanding_acks.items().  The iterator raises RuntimeError when the
\* dict changed size since it was created.
SenderSweep(m) ==
    /\ sender[m].pc = "sweep"
    /\ LET d == outstanding_acks[m]
           i == sender[m].it_pos IN
       IF Len(d) # sender[m].it_used
       THEN /\ sender' = Die(sender, m, "RuntimeError")
            /\ UNCHANGED <<outstanding_acks, tx, wire>>
       ELSE IF i > Len(d)
       THEN /\ sender' = [sender EXCEPT
                   ![m].pc = IF sender[m].to_remove = <<>> THEN "idle" ELSE "remove",
                   ![m].it_used = 0, ![m].it_pos = 0]
            /\ UNCHANGED <<outstanding_acks, tx, wire>>
       ELSE IF Due(d[i]) /\ MayRetry(d[i])
       THEN /\ outstanding_acks' = [outstanding_acks EXCEPT ![m][i] = Retried(@)]
            /\ \/ /\ Transmit(m, d[i].packet)
                  /\ sender' = [sender EXCEPT ![m].it_pos = i + 1]
               \/ /\ sender' = Die(sender, m, "OSError")
                  /\ UNCHANGED <<tx, wire>>
       ELSE /\ sender' = [sender EXCEPT
                   ![m].it_pos = i + 1,
                   ![m].to_remove = IF Due(d[i]) THEN Append(@, d[i].pid) ELSE @]
            /\ UNCHANGED <<outstanding_acks, tx, wire>>
    /\ UNCHANGED <<next_packet_id, send_queue, receiver, user, linked, last_time, puts,
                   budget, timed_out, delivered, id_vars, api_vars>>

\* _retry_outstanding_packets, lines 123-127: one turn of the removal loop;
\* the lookup raises KeyError when the entry is gone
SenderRemove(m) ==
    /\ sender[m].pc = "remove"
    /\ LET pid == Head(sender[m].to_remove)
           rest == Tail(sender[m].to_remove) IN
       IF pid \notin Keys(outstanding_acks[m])
       THEN /\ sender' = Die(sender, m, "KeyError")
            /\ UNCHANGED <<outstanding_acks, timed_out>>
       ELSE /\ outstanding_acks' = [outstanding_acks EXCEPT ![m] = DictDel(@, pid)]
            /\ timed_out' = [timed_out EXCEPT ![m] = Inc(@, pid)]
            /\ sender' = [sender EXCEPT ![m].to_remove = rest,
                                        ![m].pc = IF rest = <<>> THEN "idle" ELSE "remove"]
    /\ UNCHANGED <<next_packet_id, send_queue, receiver, user, wire, linked, last_time, puts,
                   budget, tx, delivered, id_vars, api_vars>>

\* time passes: every entry that is not yet due grows older.  `now' is read
\* once per sweep (line 112), so the clock does not move inside its loop.
Tick ==
    /\ \A m \in Mgrs : sender[m].pc # "sweep"
    /\ \E m \in Mgrs : \E i \in 1..Len(outstanding_acks[m]) : ~Due(outstanding_acks[m][i])
    /\ outstanding_acks' = [m \in Mgrs |->
           [i \in 1..Len(outstanding_acks[m]) |->
               IF Due(outstanding_acks[m][i]) THEN outstanding_acks[m][i]
               ELSE [outstanding_acks[m][i] EXCEPT !.age = @ + 1]]]
    /\ UNCHANGED <<next_packet_id, send_queue, sender, receiver, user, wire, linked, last_time,
                   puts, budget, tx, timed_out, delivered, id_vars, api_vars>>

\* ------------------------------------------------------------ receiver worker
\* _recv_loop, lines 132-135: receive_packet returns the next frame of the
\* wire, or a frame of the peer outside the model (None, with nothing read,
\* changes nothing), or the read raises
RecvReceive(m) ==
    /\ receiver[m].pc = "idle"
    /\ \/ /\ linked /\ wire[m] # <<>>
          /\ receiver' = [receiver EXCEPT ![m].pc = "handle", ![m].packet = Head(wire[m])]
          /\ wire' = [wire EXCEPT ![m] = Tail(@)]
          /\ budget' = budget
       \/ /\ ~linked /\ budget > 0
          /\ \E packet \in InPackets :
                receiver' = [receiver EXCEPT ![m].pc = "handle", ![m].packet = packet]
          /\ budget' = budget - 1
          /\ wire' = wire
       \/ /\ receiver' = Die(receiver, m, "OSError")
          /\ wire' = wire
          /\ budget' = budget
    /\ UNCHANGED <<next_packet_id, send_queue, outstanding_acks, sender, user, linked, last_time,
                   puts, tx, timed_out, delivered, id_vars, api_vars>>

\* _handle_incoming_packet, line 139: packet.HasField("ack_pkt")
IsAckBug(packet) == packet.kind = "ack_pkt" /\ ~packet.need_ack
IsAck(packet) == packet.kind = "ack_pkt"

\* _handle_incoming_packet, line 141: ack_id in self.outstanding_acks
AckMatchesBug(d, ack_id) == d # <<>>
AckMatches(d, ack_id) == ack_id \in Keys(d)

\* _handle_incoming_packet, lines 139-146: the branch taken.  History:
\* acked holds the ack_ids of the Acks handled to the end (lines 140-143)
\* whose message had been passed to send_packet before
RecvHandle(m) ==
    /\ receiver[m].pc = "handle"
    /\ LET packet == receiver[m].packet IN
       receiver' =
           IF IsAck(packet)
           THEN IF AckMatches(outstanding_acks[m], packet.ack_id)
                THEN [receiver EXCEPT ![m].pc = "ack_del"]
                ELSE [receiver EXCEPT ![m].pc = "idle", ![m].packet = None,
                                      ![m].acked = @ \cup (IF Count(tx[m], packet.ack_id) >= 1
                                                           THEN {packet.ack_id} ELSE {})]
           ELSE IF GetBaseRaises(packet)
                THEN Die(receiver, m, "ValueError")
           ELSE IF GetBase(packet).need_ack
                THEN [receiver EXCEPT ![m].pc = "send_ack"]
                ELSE [receiver EXCEPT ![m].pc = "dispatch"]
    /\ UNCHANGED <<next_packet_id, send_queue, outstanding_acks, sender, user, wire, linked,
                   last_time, puts, budget, tx, timed_out, delivered, id_vars, api_vars>>

\* _handle_incoming_packet, line 142: del raises KeyError when the entry
\* went away after the test of line 141
RecvAckDel(m) ==
    /\ receiver[m].pc = "ack_del"
    /\ LET ack_id == receiver[m].packet.ack_id IN
       IF ack_id \in Keys(outstanding_acks[m])
       THEN /\ outstanding_acks' = [outstanding_acks EXCEPT ![m] = DictDel(@, ack_id)]
            /\ receiver' = [receiver EXCEPT ![m].pc = "idle", ![m].packet = None,
                                            ![m].acked = @ \cup {ack_id}]
       ELSE /\ receiver' = Die(receiver, m, "KeyError")
            /\ UNCHANGED outstanding_acks
    /\ UNCHANGED <<next_packet_id, send_queue, sender, user, wire, linked, last_time, puts,
                   budget, tx, timed_out, delivered, id_vars, api_vars>>

\* _send_ack, lines 157-161, and enqueue_packet up to the reading of the clock
AckForBug(pid, packet_id_to_ack) == Packet("ack_pkt", pid, FALSE, pid)
AckFor(pid, packet_id_to_ack) == Packet("ack_pkt", pid, FALSE, packet_id_to_ack)

\* history: ack acknowledges packet
IsAckFor(ack, packet) == ack.kind = "ack_pkt" /\ ack.ack_id = GetBase(packet).packet_id

RecvSendAck(m) ==
    /\ receiver[m].pc = "send_ack"
    /\ \E t \in TimeReadings :
         LET g == GeneratePacketId(next_packet_id[m])
             ack_pkt == AckFor(g.pid, GetBase(receiver[m].packet).packet_id) IN
         /\ next_packet_id' = [next_packet_id EXCEPT ![m] = g.next]
         /\ receiver' = [receiver EXCEPT ![m].pc = "put_ack",
                ![m].item = Item(Priority(GetBase(ack_pkt).need_ack), t, ack_pkt, puts)]
         /\ last_time' = t
    /\ UNCHANGED <<send_queue, outstanding_acks, sender, user, wire, linked, puts, budget,
                   tx, timed_out, delivered, id_vars, api_vars>>

\* the put of enqueue_packet for the Ack; a TypeError ends the worker
RecvPutAck(m) ==
    /\ receiver[m].pc = "put_ack"
    /\ Put(m, receiver[m].item)
    /\ receiver' = [(IF PutRaises(m, receiver[m].item)
                     THEN Die(receiver, m, "TypeError")
                     ELSE [receiver EXCEPT ![m].pc = "dispatch"])
                    EXCEPT ![m].acks = @ + (IF IsAckFor(receiver[m].item.packet, receiver[m].packet)
                                            THEN 1 ELSE 0),
                           ![m].item = None]
    /\ UNCHANGED <<next_packet_id, outstanding_acks, sender, user, wire, linked, last_time,
                   budget, tx, timed_out, delivered, id_vars, api_vars>>

\* _handle_incoming_packet, line 150: on_user_packet_received
RecvDispatch(m) ==
    /\ receiver[m].pc = "dispatch"
    /\ delivered' = [delivered EXCEPT ![m] = Inc(@, GetBase(receiver[m].packet).packet_id)]
    /\ receiver' = [receiver EXCEPT ![m].pc = "idle", ![m].packet = None, ![m].acks = 0]
    /\ UNCHANGED <<next_packet_id, send_queue, outstanding_acks, sender, user, wire, linked,
                   last_time, puts, budget, tx, timed_out, id_vars, api_vars>>

\* ------------------------------------------------------------ one manager
Next ==
    \/ \E u \in Users : UserSend("A", u)
    \/ \E u \in Users : UserPut("A", u)
    \/ SenderDequeue("A")
    \/ SenderTrack("A")
    \/ SenderSweep("A")
    \/ SenderRemove("A")
    \/ RecvReceive("A")
    \/ RecvHandle("A")
    \/ RecvAckDel("A")
    \/ RecvSendAck("A")
    \/ RecvPutAck("A")
    \/ RecvDispatch("A")
    \/ Tick

Spec == Init /\ [][Next]_vars

\* The workers are threads of the operating system and the callers return
\* from their calls: a step of the sender, of the receiver or of a caller
\* that stays possible is taken.  Time passes whatever the sender does: the
\* clock moves between sweeps however often a sweep begins (strong fairness).
SenderStep(m) == SenderDequeue(m) \/ SenderTrack(m) \/ SenderSweep(m) \/ SenderRemove(m)
ReceiverStep(m) ==
    RecvHandle(m) \/ RecvAckDel(m) \/ RecvSendAck(m) \/ RecvPutAck(m) \/ RecvDispatch(m)

FairSpec ==
    /\ Init /\ [][Next]_vars
    /\ WF_vars(SenderStep("A"))
    /\ WF_vars(ReceiverStep("A"))
    /\ WF_vars(\E u \in Users : UserPut("A", u))
    /\ SF_vars(Tick)

\* ------------------------------------------------------------ two managers
\* A and B joined by a channel that loses and delays frames; A's user sends
InitLink ==
    /\ next_packet_id = [m \in Mgrs |-> 1]
    /\ InitManagers
    /\ linked = TRUE
    /\ budget = LinkMsgs

NextLink ==
    \/ \E u \in Users : UserSend("A", u)
    \/ \E u \in Users : UserPut("A", u)
    \/ \E m \in Mgrs : SenderDequeue(m)
    \/ \E m \in Mgrs : SenderTrack(m)
    \/ \E m \in Mgrs : SenderSweep(m)
    \/ \E m \in Mgrs : SenderRemove(m)
    \/ \E m \in Mgrs : RecvReceive(m)
    \/ \E m \in Mgrs : RecvHandle(m)
    \/ \E m \in Mgrs : RecvAckDel(m)
    \/ \E m \in Mgrs : RecvSendAck(m)
    \/ \E m \in Mgrs : RecvPutAck(m)
    \/ \E m \in Mgrs : RecvDispatch(m)
    \/ \E m \in Mgrs : Lose(m)
    \/ Tick

SpecLink == InitLink /\ [][NextLink]_vars

\* ------------------------------------------------------------ the allocator alone
\* generate_packet_id, lines 75-80, statement by statement, called by
\* several threads (user threads in send methods, the receiver in _send_ack)

\* line 75: with self._id_lock
IdAcquireBug(t) ==
    /\ id_thread[t].pc = "idle"
    /\ id_thread[t].calls < MaxCalls
    /\ id_thread' = [id_thread EXCEPT ![t].pc = "locked", ![t].calls = @ + 1]
    /\ UNCHANGED <<api_vars, next_packet_id, mgr_vars, id_lock, issued>>

IdAcquire(t) ==
    /\ id_thread[t].pc = "idle"
    /\ id_thread[t].calls < MaxCalls
    /\ id_lock = "free"
    /\ id_lock' = t
    /\ id_thread' = [id_thread EXCEPT ![t].pc = "locked", ![t].calls = @ + 1]
    /\ UNCHANGED <<api_vars, next_packet_id, mgr_vars, issued>>

\* lines 76-78: the wrap and pid = self._next_packet_id, the value the call
\* returns
IdTake(t) ==
    /\ id_thread[t].pc = "locked"
    /\ next_packet_id' = [next_packet_id EXCEPT !["A"] = Wrap(@)]
    /\ id_thread' = [id_thread EXCEPT ![t].pc = "taken", ![t].pid = Wrap(next_packet_id["A"])]
    /\ issued' = Append(issued, Wrap(next_packet_id["A"]))
    /\ UNCHANGED <<api_vars, mgr_vars, id_lock>>

\* line 79, the release of the lock and the return
IdIncrement(t) ==
    /\ id_thread[t].pc = "taken"
    /\ next_packet_id' = [next_packet_id EXCEPT !["A"] = Succ(@)]
    /\ id_thread' = [id_thread EXCEPT ![t].pc = "idle", ![t].pid = 0]
    /\ id_lock' = IF id_lock = t THEN "free" ELSE id_lock
    /\ UNCHANGED <<api_vars, mgr_vars, issued>>

\* the counter values the runs start from: line 51 sets 1; every value up
\* to MAX_PACKET_ID + 1 is reached by earlier calls
IdStarts == (1..IdSpread) \cup {MAX_PACKET_ID - k : k \in 0..IdSpread} \cup {0}

InitId ==
    /\ \E n \in IdStarts : next_packet_id = [m \in Mgrs |-> n]
    /\ InitManagers
    /\ linked = FALSE
    /\ budget = 0

NextId ==
    \/ \E t \in IdThreads : IdAcquire(t)
    \/ \E t \in IdThreads : IdTake(t)
    \/ \E t \in IdThreads : IdIncrement(t)

SpecId == InitId /\ [][NextId]_vars

\* ------------------------------------------------------------ the dispatch layer
\* DroneComms: the observer lists, the register and unregister methods on a
\* user thread, and on_user_packet_received on the receiver thread of "A".

\* the variants the bounded runs register observers for and receive
ObsKinds == {"cfg_rsp", "gps_pkt"}

\* the observers of the user; "boom" raises when called
Callbacks == {"f", "boom"}
CallbackRaises(cb) == cb = "boom"

\* lines 113-126 and 922-956: the list _packet_handlers leads to
PacketHandlers == [k \in ObsVariants |-> k]

\* the _extract_* methods, lines 814-917: header and body fields copied
Extract(packet) ==
    [packet_id |-> packet.packet_id, timestamp |-> packet.timestamp, body |-> packet.body]

\* an element of an observer list: (callback, once); reg is the number of
\* the register call that appended it (history)
HandlerEntry(cb, once, reg) == [cb |-> cb, once |-> once, reg |-> reg]

RemoveAt(l, n) == [x \in 1..(Len(l) - 1) |-> IF x < n THEN l[x] ELSE l[x + 1]]

\* list.remove((cb, once)): the index of the first equal element, 0 if none
FirstEqual(l, cb, once) ==
    LET hits == {x \in 1..Len(l) : l[x].cb = cb /\ l[x].once = once} IN
    IF hits = {} THEN 0 ELSE CHOOSE x \in hits : \A y \in hits : x <= y

\* register_*_handler, e.g. line 186: append
RegisterBug(kind, cb, once) ==
    /\ caller.pc = "idle"
    /\ regs < MaxRegs
    /\ handlers' = [handlers EXCEPT ![kind] = <<HandlerEntry(cb, once, regs + 1)>> \o @]
    /\ regs' = regs + 1
    /\ UNCHANGED <<dispatch, caller, next_packet_id, mgr_vars, id_vars, life_vars, api, ext_vars>>

Register(kind, cb, once) ==
    /\ caller.pc = "idle"
    /\ regs < MaxRegs
    /\ handlers' = [handlers EXCEPT ![kind] = Append(@, HandlerEntry(cb, once, regs + 1))]
    /\ regs' = regs + 1
    /\ UNCHANGED <<dispatch, caller, next_packet_id, mgr_vars, id_vars, life_vars, api, ext_vars>>

\* unregister_*_handler, e.g. line 200: the call and the iterator of the for
UnregisterCall(kind, cb) ==
    /\ caller.pc = "idle"
    /\ caller' = [CallerInit EXCEPT !.pc = "scan", !.kind = kind, !.cb = cb]
    /\ UNCHANGED <<handlers, dispatch, regs, next_packet_id, mgr_vars, id_vars, life_vars, api, ext_vars>>

\* lines 200-201 and 204: one round of the for loop; the list iterator
\* holds an index and ends when the index is past the end of the list
UnregisterScan ==
    /\ caller.pc = "scan"
    /\ LET l == handlers[caller.kind] IN
       caller' =
           IF caller.j >= Len(l)
           THEN [CallerInit EXCEPT !.ret = "False"]
           ELSE IF l[caller.j + 1].cb = caller.cb
                THEN [caller EXCEPT !.pc = "remove", !.once = l[caller.j + 1].once]
                ELSE [caller EXCEPT !.j = @ + 1]
    /\ UNCHANGED <<handlers, dispatch, regs, next_packet_id, mgr_vars, id_vars, life_vars, api, ext_vars>>

\* lines 202-203: list.remove of the pair found; ValueError when no equal
\* pair is in the list any more
UnregisterRemove ==
    /\ caller.pc = "remove"
    /\ LET l == handlers[caller.kind]
           n == FirstEqual(l, caller.cb, caller.once) IN
       IF n = 0
       THEN /\ caller' = [CallerInit EXCEPT !.ret = "ValueError"]
            /\ UNCHANGED handlers
       ELSE /\ caller' = [CallerInit EXCEPT !.ret = "True"]
            /\ handlers' = [handlers EXCEPT ![caller.kind] = RemoveAt(l, n)]
    /\ UNCHANGED <<dispatch, regs, next_packet_id, mgr_vars, id_vars, life_vars, api, ext_vars>>

\* a decoded message of the peer: a variant of ObsKinds, or no variant set
\* (an empty body decodes to a RadioPacket with no field of the oneof)
ObsPacket(kind, pid, timestamp, body) ==
    [kind |-> kind, packet_id |-> pid, need_ack |-> FALSE, ack_id |-> 0,
     timestamp |-> timestamp, body |-> body]

ObsPackets ==
    {ObsPacket("cfg_rsp", 1, 10, "x"), ObsPacket("gps_pkt", 2, 20, "y"),
     ObsPacket("unset", 0, 0, "")}

\* _recv_loop, lines 132-135, of a DroneComms: receive_packet returns a message
ObsReceive(m) ==
    /\ receiver[m].pc = "idle"
    /\ budget > 0
    /\ \E packet \in ObsPackets :
          receiver' = [receiver EXCEPT ![m].pc = "handle", ![m].packet = packet]
    /\ budget' = budget - 1
    /\ UNCHANGED <<next_packet_id, send_queue, outstanding_acks, sender, user, wire, linked,
                   last_time, puts, tx, timed_out, delivered, id_vars, obs_vars, life_vars, api, ext_vars>>

\* DroneComms.on_user_packet_received, lines 160-168, up to the call of
\* _invoke_handlers (line 964: the iterator of the for)
OnUserPacketReceived(m) ==
    /\ receiver[m].pc = "dispatch"
    /\ dispatch.pc = "none"
    /\ LET field == receiver[m].packet.kind IN
       IF field \notin DOMAIN PacketHandlers
       THEN /\ receiver' = [receiver EXCEPT ![m].pc = "idle", ![m].packet = None]
            /\ UNCHANGED dispatch
       ELSE /\ dispatch' = [DispatchInit EXCEPT !.pc = "iter", !.kind = PacketHandlers[field],
                                 !.data = Extract(receiver[m].packet),
                                 !.snapshot = handlers[PacketHandlers[field]]]
            /\ receiver' = [receiver EXCEPT ![m].pc = "invoke"]
    /\ UNCHANGED <<handlers, caller, regs, next_packet_id, send_queue, outstanding_acks,
                   sender, user, wire, linked, last_time, puts, budget, tx, timed_out, delivered,
                   id_vars, life_vars, api, ext_vars>>

\* _invoke_handlers, lines 964-967: one round of the first loop.  The
\* observer is called with the data record; an observer that raises ends
\* the pass and, nothing catching it, the receiver worker
InvokeStep(m) ==
    /\ receiver[m].pc = "invoke"
    /\ dispatch.pc = "iter"
    /\ LET l == handlers[dispatch.kind] IN
       IF dispatch.i >= Len(l)
       THEN /\ dispatch' = [dispatch EXCEPT !.pc = "sweep"]
            /\ UNCHANGED receiver
       ELSE LET e == l[dispatch.i + 1] IN
            /\ IF CallbackRaises(e.cb)
               THEN /\ receiver' = Die(receiver, m, "Exception")
                    /\ dispatch' = DispatchInit
               ELSE /\ dispatch' = [dispatch EXCEPT
                            !.i = @ + 1,
                            !.called = Append(@, [reg |-> e.reg, data |-> dispatch.data]),
                            !.to_remove = IF e.once THEN Append(@, dispatch.i) ELSE @]
                    /\ UNCHANGED receiver
    /\ UNCHANGED <<handlers, caller, regs, next_packet_id, send_queue, outstanding_acks,
                   sender, user, wire, linked, last_time, puts, budget, tx, timed_out, delivered,
                   id_vars, life_vars, api, ext_vars>>

\* _invoke_handlers, lines 968-969: one round of the second loop, from the
\* last index back; pop raises IndexError past the end of the list
SweepStep(m) ==
    /\ receiver[m].pc = "invoke"
    /\ dispatch.pc = "sweep"
    /\ IF dispatch.to_remove = <<>>
       THEN /\ dispatch' = DispatchInit
            /\ receiver' = [receiver EXCEPT ![m].pc = "idle", ![m].packet = None]
            /\ UNCHANGED handlers
       ELSE LET i == dispatch.to_remove[Len(dispatch.to_remove)]
                l == handlers[dispatch.kind] IN
            IF i >= Len(l)
            THEN /\ receiver' = Die(receiver, m, "IndexError")
                 /\ dispatch' = DispatchInit
                 /\ UNCHANGED handlers
            ELSE /\ handlers' = [handlers EXCEPT ![dispatch.kind] = RemoveAt(l, i + 1)]
                 /\ dispatch' = [dispatch EXCEPT
                        !.to_remove = SubSeq(@, 1, Len(@) - 1)]
                 /\ UNCHANGED receiver
    /\ UNCHANGED <<caller, regs, next_packet_id, send_queue, outstanding_acks,
                   sender, user, wire, linked, last_time, puts, budget, tx, timed_out, delivered,
                   id_vars, life_vars, api, ext_vars>>

InitObs ==
    /\ next_packet_id = [m \in Mgrs |-> 1]
    /\ InitManagers
    /\ linked = FALSE
    /\ budget = MaxFrames

NextObs ==
    \/ \E kind \in ObsKinds, cb \in Callbacks, once \in BOOLEAN : Register(kind, cb, once)
    \/ \E kind \in ObsKinds, cb \in Callbacks : UnregisterCall(kind, cb)
    \/ UnregisterScan
    \/ UnregisterRemove
    \/ ObsReceive("A")
    \/ RecvHandle("A")
    \/ OnUserPacketReceived("A")
    \/ InvokeStep("A")
    \/ SweepStep("A")

SpecObs == InitObs /\ [][NextObs]_vars

\* ------------------------------------------------------------ the life cycle
\* DroneComms.__init__, PacketManager.start and stop, and the two worker
\* loops as far as the stop flag and the channel are concerned.  Time is
\* counted in seconds.

\* the arguments of DroneComms.__init__: no RadioConfig, or a RadioConfig
\* with its interface_type and port
NoConfig == [given |-> FALSE]
RadioConfig(interface_type, port) ==
    [given |-> TRUE, interface_type |-> interface_type, port |-> port]
Configs ==
    {NoConfig}
    \cup {RadioConfig(t, p) : t \in {"serial", "simulated", "lora"}, p \in {"none", "COM3"}}

\* DroneComms.__init__, lines 81-103: the configurations that raise ValueError
ConfigErrorBug(cfg) ==
    \/ ~cfg.given
    \/ cfg.given /\ cfg.interface_type \notin {"serial", "simulated"}

ConfigError(cfg) ==
    \/ ~cfg.given
    \/ cfg.given /\ cfg.interface_type = "serial" /\ cfg.port = "none"
    \/ cfg.given /\ cfg.interface_type \notin {"serial", "simulated"}

\* DroneComms.__init__: the checks, then the interface object and
\* PacketManager.__init__ with its two thread objects, not started
Construct(cfg) ==
    /\ ctor = "new"
    /\ config' = cfg
    /\ IF ConfigError(cfg)
       THEN /\ ctor' = "ValueError"
            /\ UNCHANGED channel
       ELSE /\ ctor' = "ok"
            /\ channel' = [channel EXCEPT !.state = "created"]
    /\ UNCHANGED <<stop_event, threads, stopper, next_packet_id, mgr_vars, id_vars, obs_vars, api, ext_vars>>

\* PacketManager.start, lines 61-64: connect, which may raise, then the
\* flag is cleared and the threads are started
Start ==
    /\ ctor = "ok"
    /\ channel.state = "created"
    /\ threads.sender.pc = "unstarted"
    /\ \/ /\ channel' = [channel EXCEPT !.state = "open"]
          /\ stop_event' = FALSE
          /\ threads' = [threads EXCEPT !.sender.pc = "test", !.receiver.pc = "test"]
       \/ /\ channel' = [channel EXCEPT !.state = "failed"]
          /\ UNCHANGED <<stop_event, threads>>
    /\ UNCHANGED <<config, ctor, stopper, next_packet_id, mgr_vars, id_vars, obs_vars, api, ext_vars>>

\* a call of a method of the interface by a worker
ChannelUse(ch) == [ch EXCEPT !.late_use = @ \/ ch.state = "closed"]

\* SerialRadioInterface.close, SimulatedRadioInterface.close: closing a
\* closed interface leaves it closed
ChannelClose(ch) ==
    [ch EXCEPT !.state = IF @ = "open" THEN "closed" ELSE @, !.closes = @ + 1]

\* _send_loop, line 93: the test of the flag
SendLoopTest ==
    /\ threads.sender.pc = "test"
    /\ threads' = [threads EXCEPT !.sender.pc = IF stop_event THEN "ended" ELSE "get"]
    /\ UNCHANGED <<config, ctor, channel, stop_event, stopper, next_packet_id, mgr_vars,
                   id_vars, obs_vars, api, ext_vars>>

\* _send_loop, lines 95-100: the get returns within its 0.1 s; a message is
\* passed to the interface, an empty queue leads to the sweep
SendLoopGet ==
    /\ threads.sender.pc = "get"
    /\ threads' = [threads EXCEPT !.sender.pc = "test"]
    /\ \/ channel' = ChannelUse(channel)
       \/ UNCHANGED channel
    /\ UNCHANGED <<config, ctor, stop_event, stopper, next_packet_id, mgr_vars, id_vars,
                   obs_vars, api, ext_vars>>

\* _recv_loop, lines 131-132: the test of the flag and the call of
\* receive_packet, whose first read is that of the sync marker.  History:
\* elapsed is the time since the call of receive_packet began; it is kept
\* after the return until the next call begins.
RecvLoopTest ==
    /\ threads.receiver.pc = "test"
    /\ threads' = [threads EXCEPT !.receiver =
           IF stop_event
           THEN [pc |-> "ended", stage |-> 0, since |-> 0, poll |-> 0, elapsed |-> 0]
           ELSE [pc |-> "read", stage |-> 1, since |-> 0, poll |-> 0, elapsed |-> 0]]
    /\ UNCHANGED <<config, ctor, channel, stop_event, stopper, next_packet_id, mgr_vars,
                   id_vars, obs_vars, api, ext_vars>>

\* _read_with_timeout, lines 98-101: past the deadline the read ends short
\* and receive_packet returns None; otherwise _read_data is called
ReadLoop ==
    /\ threads.receiver.pc = "read"
    /\ IF threads.receiver.since >= ReadTimeout
       THEN /\ threads' = [threads EXCEPT !.receiver =
                   [pc |-> "test", stage |-> 0, since |-> 0, poll |-> 0,
                    elapsed |-> threads.receiver.elapsed]]
            /\ UNCHANGED channel
       ELSE /\ threads' = [threads EXCEPT !.receiver.pc = "poll", !.receiver.poll = 0]
            /\ channel' = ChannelUse(channel)
    /\ UNCHANGED <<config, ctor, stop_event, stopper, next_packet_id, mgr_vars, id_vars,
                   obs_vars, api, ext_vars>>

\* _read_data returns the bytes of the field: the next read of
\* receive_packet begins with a deadline of its own (line 95); after the
\* checksum the frame is decoded and handled
ReadData ==
    /\ threads.receiver.pc = "poll"
    /\ channel.state = "open"
    /\ threads' = [threads EXCEPT !.receiver =
           IF threads.receiver.stage < 4
           THEN [pc |-> "read", stage |-> threads.receiver.stage + 1, since |-> 0, poll |-> 0,
                 elapsed |-> threads.receiver.elapsed]
           ELSE [pc |-> "test", stage |-> 0, since |-> 0, poll |-> 0,
                 elapsed |-> threads.receiver.elapsed]]
    /\ UNCHANGED <<config, ctor, channel, stop_event, stopper, next_packet_id, mgr_vars,
                   id_vars, obs_vars, api, ext_vars>>

\* _read_data returns no bytes: after the timeout of the port or socket
\* (set to the read timeout, lines 131 and 193), or at once on a closed one
ReadEmpty ==
    /\ threads.receiver.pc = "poll"
    /\ threads.receiver.poll >= ReadTimeout \/ channel.state # "open"
    /\ threads' = [threads EXCEPT !.receiver.pc = "read", !.receiver.poll = 0]
    /\ UNCHANGED <<config, ctor, channel, stop_event, stopper, next_packet_id, mgr_vars,
                   id_vars, obs_vars, api, ext_vars>>

\* stop, line 68: the flag is set
StopSetBug ==
    /\ stopper.pc = "idle"
    /\ stopper.stops < MaxStops
    /\ threads.sender.pc # "unstarted"
    /\ stop_event' = ~stop_event
    /\ stopper' = [stopper EXCEPT !.pc = "join_send", !.waited = 0]
    /\ UNCHANGED <<config, ctor, channel, threads, next_packet_id, mgr_vars, id_vars, obs_vars, api, ext_vars>>

StopSet ==
    /\ stopper.pc = "idle"
    /\ stopper.stops < MaxStops
    /\ threads.sender.pc # "unstarted"
    /\ stop_event' = TRUE
    /\ stopper' = [stopper EXCEPT !.pc = "join_send", !.waited = 0]
    /\ UNCHANGED <<config, ctor, channel, threads, next_packet_id, mgr_vars, id_vars, obs_vars, api, ext_vars>>

\* the thread a join of stop waits for
Joined == IF stopper.pc = "join_send" THEN threads.sender ELSE threads.receiver

\* stop, lines 69-70: join(timeout=2) returns when the thread has ended or
\* the timeout has passed
StopJoin ==
    /\ stopper.pc \in {"join_send", "join_recv"}
    /\ Joined.pc = "ended" \/ stopper.waited >= JoinTimeout
    /\ stopper' = [stopper EXCEPT !.pc = IF @ = "join_send" THEN "join_recv" ELSE "close",
                                  !.waited = 0]
    /\ UNCHANGED <<config, ctor, channel, stop_event, threads, next_packet_id, mgr_vars,
                   id_vars, obs_vars, api, ext_vars>>

\* stop, line 71: close, and the return
StopClose ==
    /\ stopper.pc = "close"
    /\ channel' = ChannelClose(channel)
    /\ stopper' = [stopper EXCEPT !.pc = "idle", !.stops = @ + 1]
    /\ UNCHANGED <<config, ctor, stop_event, threads, next_packet_id, mgr_vars, id_vars,
                   obs_vars, api, ext_vars>>

\* a second passes.  What takes no time is done first: a join whose thread
\* has ended or whose timeout has passed returns, a blocked _read_data
\* returns at its timeout, the steps of the receiver between two calls of
\* _read_data are taken, and the sender, whose round takes the 0.1 s of the
\* get, has seen a flag set before.
Elapse ==
    /\ stopper.pc \in {"join_send", "join_recv"} =>
           (Joined.pc # "ended" /\ stopper.waited < JoinTimeout)
    /\ stopper.pc # "close"
    /\ threads.receiver.pc \notin {"test", "read"}
    /\ threads.receiver.pc = "poll" =>
           (threads.receiver.poll < ReadTimeout /\ channel.state = "open")
    /\ stop_event => threads.sender.pc \notin {"test", "get"}
    /\ stopper.pc \in {"join_send", "join_recv"} \/ threads.receiver.pc = "poll"
    /\ stopper' = IF stopper.pc \in {"join_send", "join_recv"}
                  THEN [stopper EXCEPT !.waited = @ + 1] ELSE stopper
    /\ threads' = IF threads.receiver.pc = "poll"
                  THEN [threads EXCEPT !.receiver.since = @ + 1, !.receiver.poll = @ + 1,
                                       !.receiver.elapsed = @ + 1]
                  ELSE threads
    /\ UNCHANGED <<config, ctor, channel, stop_event, next_packet_id, mgr_vars, id_vars,
                   obs_vars, api, ext_vars>>

InitLife ==
    /\ next_packet_id = [m \in Mgrs |-> 1]
    /\ InitManagers
    /\ linked = FALSE
    /\ budget = 0

NextLife ==
    \/ \E cfg \in Configs : Construct(cfg)
    \/ Start
    \/ SendLoopTest
    \/ SendLoopGet
    \/ RecvLoopTest
    \/ ReadLoop
    \/ ReadData
    \/ ReadEmpty
    \/ StopSet
    \/ StopJoin
    \/ StopClose
    \/ Elapse

SpecLife == InitLife /\ [][NextLife]_vars

\* ------------------------------------------------------------ the send API
\* DroneComms.send_*: the twelve methods, each with the variant it fills in
\* and the need_ack it writes (lines 553-808)
SendMethods ==
    [send_sync_request |-> [kind |-> "syn_rqt", need_ack |-> TRUE],
     send_sync_response |-> [kind |-> "syn_rsp", need_ack |-> FALSE],
     send_config_request |-> [kind |-> "cfg_rqt", need_ack |-> TRUE],
     send_config_response |-> [kind |-> "cfg_rsp", need_ack |-> FALSE],
     send_gps_data |-> [kind |-> "gps_pkt", need_ack |-> FALSE],
     send_ping_data |-> [kind |-> "ping_pkt", need_ack |-> FALSE],
     send_loc_est_data |-> [kind |-> "loc_pkt", need_ack |-> FALSE],
     send_start_request |-> [kind |-> "str_rqt", need_ack |-> TRUE],
     send_start_response |-> [kind |-> "str_rsp", need_ack |-> FALSE],
     send_stop_request |-> [kind |-> "stp_rqt", need_ack |-> TRUE],
     send_stop_response |-> [kind |-> "stp_rsp", need_ack |-> FALSE],
     send_error |-> [kind |-> "err_pkt", need_ack |-> FALSE]]

\* the message a send method builds: the header with its timestamp
SendPacket(kind, pid, need_ack, timestamp) ==
    [kind |-> kind, packet_id |-> pid, need_ack |-> need_ack, ack_id |-> 0,
     timestamp |-> timestamp]

\* the tuple a send method returns, read from the message after the enqueue
SendReturn(packet) ==
    [status |-> "returned", packet_id |-> packet.packet_id, need_ack |-> packet.need_ack,
     timestamp |-> packet.timestamp]

SendRaise(exc) == [NoReturn EXCEPT !.status = exc]

\* a send method up to the put of enqueue_packet: generate_packet_id, the
\* need_ack of the method, _current_timestamp_us(), then in enqueue_packet
\* the priority from the header and a reading of time.time(), which is the
\* reading of the timestamp or a later one
SendBuild(method) ==
    /\ api.pc = "idle"
    /\ budget > 0
    /\ \E ts \in TimeReadings : \E t \in {ts, ts + 1} :
         LET g == GeneratePacketId(next_packet_id["A"])
             packet == SendPacket(SendMethods[method].kind, g.pid,
                                  SendMethods[method].need_ack, ts) IN
         /\ next_packet_id' = [next_packet_id EXCEPT !["A"] = g.next]
         /\ api' = [pc |-> "put", method |-> method, ret |-> NoReturn,
                    item |-> Item(Priority(GetBase(packet).need_ack), t, packet, puts)]
         /\ last_time' = t
    /\ budget' = budget - 1
    /\ UNCHANGED <<send_queue, outstanding_acks, sender, receiver, user, wire, linked, puts,
                   tx, timed_out, delivered, id_vars, obs_vars, life_vars, ext_vars>>

\* the put of enqueue_packet and the return of the send method; a TypeError
\* of the put leaves the method in place of the return
SendPut ==
    /\ api.pc = "put"
    /\ Put("A", api.item)
    /\ api' = [api EXCEPT !.pc = "idle", !.item = None,
                          !.ret = IF PutRaises("A", api.item) THEN SendRaise("TypeError")
                                  ELSE SendReturn(api.item.packet)]
    /\ UNCHANGED <<next_packet_id, outstanding_acks, sender, receiver, user, wire, linked,
                   last_time, budget, tx, timed_out, delivered, id_vars, obs_vars, life_vars, ext_vars>>

InitSend ==
    /\ \E n \in IdStarts : next_packet_id = [m \in Mgrs |-> n]
    /\ InitManagers
    /\ linked = FALSE
    /\ budget = MaxSends

NextSend ==
    \/ \E method \in DOMAIN SendMethods : SendBuild(method)
    \/ SendPut

SpecSend == InitSend /\ [][NextSend]_vars

\* ------------------------------------------------------------ the codec
\* codec.py.  Bytes are the numbers 0 .. 255, byte strings are sequences.

SYNC_MARKER == <<170, 85>>
SYNC_MARKER_LENGTH == Len(SYNC_MARKER)
LENGTH_FIELD_SIZE == 4
CHECKSUM_SIZE == 2

\* the operators ^ and & of Python on numbers that are not negative
BitXor[a \in Nat, b \in Nat] ==
    IF a = 0 THEN b
    ELSE IF b = 0 THEN a
    ELSE ((a + b) % 2) + 2 * BitXor[a \div 2, b \div 2]

BitAnd[a \in Nat, b \in Nat] ==
    IF a = 0 \/ b = 0 THEN 0
    ELSE ((a % 2) * (b % 2)) + 2 * BitAnd[a \div 2, b \div 2]

\* _calculate_crc16_ccitt, lines 22-26: one round of the inner loop
CrcRound[crc \in Nat, poly \in Nat] ==
    BitAnd[IF BitAnd[crc, 32768] # 0 THEN BitXor[crc * 2, poly] ELSE crc * 2, 65535]

\* lines 21-26: n rounds
CrcRounds[crc \in Nat, poly \in Nat, n \in Nat] ==
    IF n = 0 THEN crc ELSE CrcRounds[CrcRound[crc, poly], poly, n - 1]

\* lines 17-27: crc[i] is the value after the first i bytes of data
CrcBytes(init, poly, data) ==
    LET crc[i \in 0..Len(data)] ==
            IF i = 0 THEN init ELSE CrcRounds[BitXor[crc[i - 1], data[i] * 256], poly, 8]
    IN crc[Len(data)]

\* _calculate_crc16_ccitt, lines 15-27
CalculateCrc16CcittBug(data) == CrcBytes(0, 4129, data)

CalculateCrc16Ccitt(data) == CrcBytes(65535, 4129, data)

\* int.to_bytes(size, byteorder="big")
RECURSIVE ToBytes(_, _)
ToBytes(n, size) == IF size = 0 THEN <<>> ELSE Append(ToBytes(n \div 256, size - 1), n % 256)

\* int.from_bytes(bytes, "big").  Python's integers have no bound; here
\* every value of 2^30 or more is kept as 2^30, which is larger than any
\* length or checksum it is compared with.
Huge == 1073741824
RECURSIVE FromBytesFrom(_, _)
FromBytesFrom(acc, bs) ==
    IF bs = <<>> THEN acc
    ELSE FromBytesFrom(IF acc >= Huge \div 256 THEN Huge ELSE acc * 256 + Head(bs), Tail(bs))
FromBytes(bs) == FromBytesFrom(0, bs)

\* data[lo:hi] of Python, with lo and hi counted from 0 and cut to the length
Slice(data, lo, hi) ==
    LET h == IF hi > Len(data) THEN Len(data) ELSE hi IN
    IF lo >= h THEN <<>> ELSE SubSeq(data, lo + 1, h)

\* ---- the body: RadioPacket.SerializeToString and ParseFromString
\* The generated packets_pb2 is not part of the sources; the body follows
\* the body schema of the specification as a tag-length-value encoding of
\* the kind the schema compiler produces: a field is a key (number * 8 +
\* wire type) and a base-128 number, or a key, a length and that many bytes;
\* a field with the value 0 or false is left out.  A message is its variant
\* tag, the header (packet_id, need_ack, timestamp) and value, the one body
\* field the model keeps (ack_id of an Ack, success of a response).
CodecPacket(kind, pid, need_ack, timestamp, value) ==
    [kind |-> kind, packet_id |-> pid, need_ack |-> need_ack, timestamp |-> timestamp,
     value |-> value]

\* the variant tags in the order of the body schema: the field numbers
VariantTags ==
    <<"ack_pkt", "syn_rqt", "syn_rsp", "cfg_rqt", "cfg_rsp", "gps_pkt", "ping_pkt",
      "loc_pkt", "str_rqt", "str_rsp", "stp_rqt", "stp_rsp", "err_pkt">>
VariantField(kind) == CHOOSE n \in 1..Len(VariantTags) : VariantTags[n] = kind

RECURSIVE Varint(_)
Varint(n) == IF n < 128 THEN <<n>> ELSE <<128 + (n % 128)>> \o Varint(n \div 128)

VarintField(field, n) == IF n = 0 THEN <<>> ELSE <<field * 8>> \o Varint(n)
LenField(field, bs) == <<field * 8 + 2>> \o Varint(Len(bs)) \o bs

SerializeBaseBug(m) ==
    VarintField(1, m.packet_id) \o VarintField(2, IF m.need_ack THEN 1 ELSE 0)

SerializeBase(m) ==
    VarintField(1, m.packet_id) \o VarintField(2, IF m.need_ack THEN 1 ELSE 0)
    \o VarintField(3, m.timestamp)

SerializeToString(m) ==
    IF m.kind = "unset" THEN <<>>
    ELSE LenField(VariantField(m.kind), LenField(1, SerializeBase(m)) \o VarintField(2, m.value))

\* a base-128 number at position pos: [ok, val, next]; numbers of more than
\* 31 bits are outside the model
RECURSIVE ReadVarint(_, _, _, _)
ReadVarint(bs, pos, weight, acc) ==
    IF pos > Len(bs) \/ weight > 268435456 \/ (weight = 268435456 /\ bs[pos] % 128 >= 8)
    THEN [ok |-> FALSE, val |-> 0, next |-> pos]
    ELSE LET val == acc + (bs[pos] % 128) * weight IN
         IF bs[pos] < 128 THEN [ok |-> TRUE, val |-> val, next |-> pos + 1]
         ELSE IF weight = 268435456 THEN [ok |-> FALSE, val |-> 0, next |-> pos]
         ELSE ReadVarint(bs, pos + 1, weight * 128, val)

ParseFailed == [ok |-> FALSE, msg |-> NoPacket]

\* the fields of the header, from position pos, into the message m
RECURSIVE ParseBase(_, _, _)
ParseBase(bs, pos, m) ==
    IF pos > Len(bs) THEN [ok |-> TRUE, msg |-> m]
    ELSE LET key == bs[pos]
             v == ReadVarint(bs, pos + 1, 1, 0) IN
         IF key \notin {8, 16, 24} \/ ~v.ok THEN ParseFailed
         ELSE ParseBase(bs, v.next,
                        IF key = 8 THEN [m EXCEPT !.packet_id = v.val]
                        ELSE IF key = 16 THEN [m EXCEPT !.need_ack = v.val # 0]
                        ELSE [m EXCEPT !.timestamp = v.val])

\* the fields of a variant: the header and the body field
RECURSIVE ParseVariant(_, _, _)
ParseVariant(bs, pos, m) ==
    IF pos > Len(bs) THEN [ok |-> TRUE, msg |-> m]
    ELSE LET key == bs[pos]
             v == ReadVarint(bs, pos + 1, 1, 0) IN
         IF ~v.ok THEN ParseFailed
         ELSE IF key = 16 THEN ParseVariant(bs, v.next, [m EXCEPT !.value = v.val])
         ELSE IF key = 10 /\ v.next + v.val - 1 <= Len(bs)
         THEN LET base == ParseBase(SubSeq(bs, v.next, v.next + v.val - 1), 1, m) IN
              IF base.ok THEN ParseVariant(bs, v.next + v.val, base.msg) ELSE ParseFailed
         ELSE ParseFailed

\* ParseFromString: the fields of RadioPacket; the variant read last is the
\* one that is set.  ok = FALSE stands for DecodeError.
RECURSIVE ParseRadioPacket(_, _, _)
ParseRadioPacket(bs, pos, m) ==
    IF pos > Len(bs) THEN [ok |-> TRUE, msg |-> m]
    ELSE LET key == bs[pos]
             field == key \div 8
             v == ReadVarint(bs, pos + 1, 1, 0) IN
         IF key % 8 # 2 \/ field \notin 1..Len(VariantTags) \/ ~v.ok
            \/ v.next + v.val - 1 > Len(bs)
         THEN ParseFailed
         ELSE LET inner == ParseVariant(SubSeq(bs, v.next, v.next + v.val - 1), 1,
                                        [NoPacket EXCEPT !.kind = VariantTags[field]]) IN
              IF inner.ok THEN ParseRadioPacket(bs, v.next + v.val, inner.msg)
              ELSE ParseFailed

ParseFromString(bs) == ParseRadioPacket(bs, 1, NoPacket)

\* ---- the frame
\* encode_packet, lines 36-45
EncodePacket(packet) ==
    LET message_data == SerializeToString(packet)
        length == Len(message_data)
        header == SYNC_MARKER \o ToBytes(length, LENGTH_FIELD_SIZE)
        data_without_checksum == header \o message_data
        checksum_val == CalculateCrc16Ccitt(data_without_checksum)
        checksum_bytes == ToBytes(checksum_val, CHECKSUM_SIZE) IN
    data_without_checksum \o checksum_bytes

\* decode_packet, lines 68-86: the checksum read from the frame, and its
\* comparison with the one computed over marker, length and body
ChecksumIn(data, length) ==
    FromBytes(Slice(data, SYNC_MARKER_LENGTH + LENGTH_FIELD_SIZE + length,
                    SYNC_MARKER_LENGTH + LENGTH_FIELD_SIZE + length + CHECKSUM_SIZE))

ChecksumOkBug(data, length) ==
    CalculateCrc16Ccitt(Slice(data, 0, SYNC_MARKER_LENGTH + LENGTH_FIELD_SIZE + length)) % 256
        = ChecksumIn(data, length) % 256

ChecksumOk(data, length) ==
    CalculateCrc16Ccitt(Slice(data, 0, SYNC_MARKER_LENGTH + LENGTH_FIELD_SIZE + length))
        = ChecksumIn(data, length)

\* decode_packet, lines 50-94: [ok, msg], ok = FALSE for None.  No
\* statement of it raises: the slices of a byte string never do, and the
\* DecodeError of the parser is caught.
DecodePacketBug(data) ==
    LET min_length == SYNC_MARKER_LENGTH + LENGTH_FIELD_SIZE + CHECKSUM_SIZE IN
    IF Len(data) >= min_length /\ Slice(data, 0, SYNC_MARKER_LENGTH) = SYNC_MARKER
    THEN LET length == FromBytes(Slice(data, SYNC_MARKER_LENGTH,
                                       SYNC_MARKER_LENGTH + LENGTH_FIELD_SIZE))
             expected_length == SYNC_MARKER_LENGTH + LENGTH_FIELD_SIZE + length + CHECKSUM_SIZE IN
         IF Len(data) >= expected_length
         THEN LET message_data == Slice(data, SYNC_MARKER_LENGTH + LENGTH_FIELD_SIZE,
                                        SYNC_MARKER_LENGTH + LENGTH_FIELD_SIZE + length) IN
              IF ChecksumOk(data, length) THEN ParseFromString(message_data) ELSE ParseFailed
         ELSE ParseFailed
    ELSE ParseFailed

DecodePacket(data) ==
    LET min_length == SYNC_MARKER_LENGTH + LENGTH_FIELD_SIZE + CHECKSUM_SIZE IN
    IF Len(data) >= min_length /\ Slice(data, 0, SYNC_MARKER_LENGTH) = SYNC_MARKER
    THEN LET length == FromBytes(Slice(data, SYNC_MARKER_LENGTH,
                                       SYNC_MARKER_LENGTH + LENGTH_FIELD_SIZE))
             expected_length == SYNC_MARKER_LENGTH + LENGTH_FIELD_SIZE + length + CHECKSUM_SIZE IN
         IF Len(data) = expected_length
         THEN LET message_data == Slice(data, SYNC_MARKER_LENGTH + LENGTH_FIELD_SIZE,
                                        SYNC_MARKER_LENGTH + LENGTH_FIELD_SIZE + length) IN
              IF ChecksumOk(data, length) THEN ParseFromString(message_data) ELSE ParseFailed
         ELSE ParseFailed
    ELSE ParseFailed

\* ---- calls of the codec
\* the messages the runs encode: every variant and no variant, with the
\* values of the codec test (1234, 999999, 5678) and of the checksum test
\* (ping, id 10) among them
CodecIds == {0, 1, 10, 1234, 6000}
CodecTimestamps == {0, 999999}
CodecValues == {0, 1, 5678}
CodecPackets ==
    {NoPacket}
    \cup {CodecPacket(VariantTags[n], pid, need_ack, timestamp, value) :
            n \in 1..Len(VariantTags), pid \in CodecIds, need_ack \in BOOLEAN,
            timestamp \in CodecTimestamps, value \in CodecValues}

\* the bytes of the byte strings that are not frames, and the bytes a byte
\* of a frame is changed into
RawBytes == {0, 85, 170}
CorruptBytes == {0, 17, 85, 170, 255}
SeqsUpTo(S, n) == UNION {[1..k -> S] : k \in 0..n}

\* the check string "123456789" of test_calculate_crc16_ccitt
CheckString == <<49, 50, 51, 52, 53, 54, 55, 56, 57>>
CrcInputs == SeqsUpTo(CorruptBytes, MaxCrcLen) \cup {CheckString}

\* encode_packet(m) for a message m; the frame becomes the argument of decode_packet
CodecEncode ==
    /\ codec.op = "none"
    /\ \E m \in CodecPackets :
         codec' = [codec EXCEPT !.op = "input", !.via = "encode", !.msg = m,
                                !.frame = EncodePacket(m), !.data = EncodePacket(m)]
    /\ UNCHANGED <<next_packet_id, mgr_vars, id_vars, obs_vars, life_vars, api, reader>>

\* one byte of the sync marker or of the checksum of the frame is changed
CodecCorrupt(i, b) ==
    /\ codec.op = "input" /\ codec.via = "encode"
    /\ i \in {1, 2, Len(codec.data) - 1, Len(codec.data)}
    /\ b # codec.data[i]
    /\ codec' = [codec EXCEPT !.via = IF i <= SYNC_MARKER_LENGTH THEN "sync" ELSE "checksum",
                              !.data = [codec.data EXCEPT ![i] = b]]
    /\ UNCHANGED <<next_packet_id, mgr_vars, id_vars, obs_vars, life_vars, api, reader>>

\* test_decode_packet_bad_checksum: encoded[:-2] + b"\x00\x00"
CodecZeroChecksum ==
    /\ codec.op = "input" /\ codec.via = "encode"
    /\ codec' = [codec EXCEPT !.via = "zero",
                              !.data = Slice(codec.data, 0, Len(codec.data) - CHECKSUM_SIZE)
                                       \o <<0, 0>>]
    /\ UNCHANGED <<next_packet_id, mgr_vars, id_vars, obs_vars, life_vars, api, reader>>

\* the frame loses its last n bytes
CodecCut(n) ==
    /\ codec.op = "input" /\ codec.via = "encode"
    /\ codec' = [codec EXCEPT !.via = "cut", !.data = Slice(codec.data, 0, Len(codec.data) - n)]
    /\ UNCHANGED <<next_packet_id, mgr_vars, id_vars, obs_vars, life_vars, api, reader>>

\* bytes follow the frame
CodecExtend ==
    /\ codec.op = "input" /\ codec.via = "encode"
    /\ \E bs \in SeqsUpTo(RawBytes, MaxCut) \ {<<>>} :
         codec' = [codec EXCEPT !.via = "extend", !.data = codec.data \o bs]
    /\ UNCHANGED <<next_packet_id, mgr_vars, id_vars, obs_vars, life_vars, api, reader>>

\* a byte string that was not made by encode_packet
CodecRaw ==
    /\ codec.op = "none"
    /\ \E bs \in SeqsUpTo(RawBytes, MaxRaw) :
         codec' = [codec EXCEPT !.op = "input", !.via = "raw", !.data = bs]
    /\ UNCHANGED <<next_packet_id, mgr_vars, id_vars, obs_vars, life_vars, api, reader>>

\* decode_packet(data)
CodecDecode ==
    /\ codec.op = "input"
    /\ LET r == DecodePacket(codec.data) IN
       codec' = [codec EXCEPT !.op = "decoded", !.ok = r.ok, !.out = r.msg]
    /\ UNCHANGED <<next_packet_id, mgr_vars, id_vars, obs_vars, life_vars, api, reader>>

\* _calculate_crc16_ccitt(data)
CodecChecksum ==
    /\ codec.op = "none"
    /\ \E bs \in CrcInputs :
         codec' = [codec EXCEPT !.op = "crc", !.data = bs, !.crc = CalculateCrc16Ccitt(bs)]
    /\ UNCHANGED <<next_packet_id, mgr_vars, id_vars, obs_vars, life_vars, api, reader>>

InitCodec ==
    /\ next_packet_id = [m \in Mgrs |-> 1]
    /\ InitManagers
    /\ linked = FALSE
    /\ budget = 0

NextCodec ==
    \/ CodecEncode
    \/ \E i \in 1..Len(codec.data), b \in CorruptBytes : CodecCorrupt(i, b)
    \/ CodecZeroChecksum
    \/ \E n \in 1..MaxCut : CodecCut(n)
    \/ CodecExtend
    \/ CodecRaw
    \/ CodecDecode
    \/ CodecChecksum

SpecCodec == InitCodec /\ [][NextCodec]_vars

\* ------------------------------------------------------------ traffic that does not end
\* One manager whose user, after the messages of the budget, keeps calling
\* a fire-and-forget send method.  Such a message leaves nothing in the
\* manager once send_packet has returned; its packet id is one that no
\* tracked message has, and which id it is makes no difference to the
\* sender, so that the state keeps one value for all of them and no
\* history of their puts and transmissions.

\* DroneComms.send_gps_data: need_ack is False
TrafficPacket == Packet("gps_pkt", MaxOps + 1, SendNeedAck("gps_pkt"), 0)

\* enqueue_packet, lines 86-89: the item of a traffic message; the clock
\* reading is the previous one (same clock quantum)
TrafficItem == Item(Priority(GetBase(TrafficPacket).need_ack), last_time, TrafficPacket, 0)

\* _send_loop, line 95: the get returns a traffic message
TrafficNext(m) ==
    /\ send_queue[m] # <<>>
    /\ ~HeapPop(send_queue[m]).raised
    /\ HeapPop(send_queue[m]).item.packet = TrafficPacket

\* enqueue_packet on the user thread, for a traffic message; the queue holds
\* one traffic message at a time
TrafficPut(m) ==
    /\ budget = 0
    /\ \A i \in 1..Len(send_queue[m]) : send_queue[m][i].packet # TrafficPacket
    /\ send_queue' = [send_queue EXCEPT ![m] = HeapPush(@, TrafficItem).heap]
    /\ UNCHANGED <<next_packet_id, outstanding_acks, sender, receiver, user, wire, linked,
                   last_time, puts, budget, tx, timed_out, delivered, id_vars, api_vars>>

\* _send_loop, lines 95-102: the get returns a traffic message, send_packet
\* returns, need_ack is false and the loop goes on with the next get
TrafficGet(m) ==
    /\ sender[m].pc = "idle"
    /\ TrafficNext(m)
    /\ send_queue' = [send_queue EXCEPT ![m] = HeapPop(@).heap]
    /\ UNCHANGED <<next_packet_id, outstanding_acks, sender, receiver, user, wire, linked,
                   last_time, puts, budget, tx, timed_out, delivered, id_vars, api_vars>>

NextTraffic ==
    \/ \E u \in Users : UserSend("A", u)
    \/ \E u \in Users : UserPut("A", u)
    \/ TrafficPut("A")
    \/ TrafficGet("A")
    \/ SenderDequeue("A") /\ ~TrafficNext("A")
    \/ SenderTrack("A")
    \/ SenderSweep("A")
    \/ SenderRemove("A")
    \/ Tick

SpecTraffic == Init /\ [][NextTraffic]_vars

\* The sender is a thread of the operating system: a step of it that stays
\* possible is taken, whichever message the get returns; the user's put
\* returns; time passes (as in FairSpec).  Nothing is assumed of the traffic.
SenderStepTraffic(m) ==
    \/ TrafficGet(m)
    \/ SenderDequeue(m) /\ ~TrafficNext(m)
    \/ SenderTrack(m) \/ SenderSweep(m) \/ SenderRemove(m)

FairTraffic ==
    /\ SpecTraffic
    /\ WF_vars(SenderStepTraffic("A"))
    /\ WF_vars(\E u \in Users : UserPut("A", u))
    /\ SF_vars(Tick)

\* ------------------------------------------------------------ the frame reader
\* RadioInterface.receive_packet on the byte stream of the channel.  The
\* peer writes frames and other bytes; _read_data returns bytes of the
\* stream in arrival order, at most as many as asked for.  reader.stream
\* holds all bytes written, reader.pos the number of them read so far.
\* History: start is pos when the call began, raw the fields the call has
\* completed, handed whether the call passed a frame to decode_packet,
\* short whether a read of the call ended short.

\* the messages the peer frames
ReaderMsgs == {NoPacket, CodecPacket("ack_pkt", 1, FALSE, 0, 1)}

\* what one write of the peer puts on the channel: a frame, a frame without
\* its last byte, a frame with its last byte changed, or bytes of no frame
ReaderWrites ==
    LET frames == {EncodePacket(m) : m \in ReaderMsgs} IN
    frames
        \cup {Slice(f, 0, Len(f) - 1) : f \in frames}
        \cup {[f EXCEPT ![Len(f)] = (@ + 1) % 256] : f \in frames}
        \cup {<<0>>, <<0, 0>>, <<170, 0>>}

\* the peer's _send_data
PeerWrite ==
    /\ reader.writes < MaxWrites
    /\ \E bs \in ReaderWrites :
          reader' = [reader EXCEPT !.stream = @ \o bs, !.writes = @ + 1]
    /\ UNCHANGED <<next_packet_id, mgr_vars, id_vars, obs_vars, life_vars, api, codec>>

\* receive_packet, line 67: the call and its first _read_with_timeout
ReceiveCall ==
    /\ reader.pc = "idle"
    /\ reader.calls < MaxReads
    /\ reader' = [reader EXCEPT !.pc = "read", !.calls = @ + 1, !.stage = 1,
                                !.need = SYNC_MARKER_LENGTH, !.got = <<>>, !.raw = <<>>,
                                !.start = reader.pos, !.ret = "unset", !.out = NoPacket,
                                !.handed = FALSE, !.short = FALSE]
    /\ UNCHANGED <<next_packet_id, mgr_vars, id_vars, obs_vars, life_vars, api, codec>>

\* _read_with_timeout, lines 98-103: _read_data returns a chunk of at most
\* the bytes still needed (an empty chunk changes nothing)
ReadChunk(n) ==
    /\ reader.pc = "read"
    /\ Len(reader.got) < reader.need
    /\ n <= reader.need - Len(reader.got)
    /\ n <= Len(reader.stream) - reader.pos
    /\ reader' = [reader EXCEPT !.got = @ \o SubSeq(reader.stream, reader.pos + 1, reader.pos + n),
                                !.pos = @ + n]
    /\ UNCHANGED <<next_packet_id, mgr_vars, id_vars, obs_vars, life_vars, api, codec>>

\* receive_packet, lines 68-69, 75-76, 81-82 and 86-87, after the deadline
\* of lines 99-100 has passed with bytes missing: None, the bytes read are
\* dropped with the locals of the call
ReadShort ==
    /\ reader.pc = "read"
    /\ Len(reader.got) < reader.need
    /\ reader' = [reader EXCEPT !.pc = "idle", !.stage = 0, !.need = 0, !.got = <<>>,
                                !.ret = "none", !.short = TRUE]
    /\ UNCHANGED <<next_packet_id, mgr_vars, id_vars, obs_vars, life_vars, api, codec>>

\* receive_packet, line 70
SyncOkBug(sync) == sync[1] = SYNC_MARKER[1]
SyncOk(sync) == sync = SYNC_MARKER

\* receive_packet, lines 77, 80 and 85: the bytes the next read asks for
NextNeed(stage, got) ==
    IF stage = 1 THEN LENGTH_FIELD_SIZE
    ELSE IF stage = 2 THEN FromBytes(got)
    ELSE CHECKSUM_SIZE

\* receive_packet, lines 67-91: a read has returned all its bytes.  The sync
\* marker is compared; the later fields lead to the next read; after the
\* checksum the fields are joined and passed to decode_packet, whose result
\* is returned
ReadDone ==
    /\ reader.pc = "read"
    /\ Len(reader.got) >= reader.need
    /\ LET raw_packet == reader.raw \o reader.got IN
       IF reader.stage = 1 /\ ~SyncOk(reader.got)
       THEN reader' = [reader EXCEPT !.pc = "idle", !.stage = 0, !.need = 0, !.got = <<>>,
                                     !.ret = "none"]
       ELSE IF reader.stage < 4
       THEN reader' = [reader EXCEPT !.stage = @ + 1, !.raw = raw_packet, !.got = <<>>,
                                     !.need = NextNeed(reader.stage, reader.got)]
       ELSE LET r == DecodePacket(raw_packet) IN
            reader' = [reader EXCEPT !.pc = "idle", !.stage = 0, !.need = 0, !.got = <<>>,
                                     !.raw = raw_packet, !.handed = TRUE,
                                     !.ret = IF r.ok THEN "message" ELSE "none",
                                     !.out = r.msg]
    /\ UNCHANGED <<next_packet_id, mgr_vars, id_vars, obs_vars, life_vars, api, codec>>

InitReader ==
    /\ next_packet_id = [m \in Mgrs |-> 1]
    /\ InitManagers
    /\ linked = FALSE
    /\ budget = 0

NextReader ==
    \/ PeerWrite
    \/ ReceiveCall
    \/ \E n \in 1..MaxChunk : ReadChunk(n)
    \/ ReadShort
    \/ ReadDone

SpecReader == InitReader /\ [][NextReader]_vars

\* ------------------------------------------------------------ two managers, every frame delivered
\* A and B joined by a channel that delivers every frame intact: no frame
\* is lost (send_packet returns when the frame is on the wire, a full wire
\* holds the writer back), and neither _send_data nor _read_data raises
Intact ==
    /\ tx' # tx => wire' # wire
    /\ \A m \in Mgrs : sender'[m].exc # "OSError" /\ receiver'[m].exc # "OSError"

NextIntact ==
    \/ \E u \in Users : UserSend("A", u)
    \/ \E u \in Users : UserPut("A", u)
    \/ \E m \in Mgrs : SenderDequeue(m) /\ Intact
    \/ \E m \in Mgrs : SenderTrack(m)
    \/ \E m \in Mgrs : SenderSweep(m) /\ Intact
    \/ \E m \in Mgrs : SenderRemove(m)
    \/ \E m \in Mgrs : RecvReceive(m) /\ Intact
    \/ \E m \in Mgrs : RecvHandle(m)
    \/ \E m \in Mgrs : RecvAckDel(m)
    \/ \E m \in Mgrs : RecvSendAck(m)
    \/ \E m \in Mgrs : RecvPutAck(m)
    \/ \E m \in Mgrs : RecvDispatch(m)
    \/ Tick

SpecIntact == InitLink /\ [][NextIntact]_vars

\* the workers of both managers are threads of the operating system, a
\* receiver takes a frame that waits on the wire, and time passes
SenderStepIntact(m) ==
    (SenderDequeue(m) /\ Intact) \/ SenderTrack(m) \/ (SenderSweep(m) /\ Intact) \/ SenderRemove(m)
ReceiverStepIntact(m) == (RecvReceive(m) /\ Intact) \/ ReceiverStep(m)

FairIntact ==
    /\ SpecIntact
    /\ \A m \in Mgrs : WF_vars(SenderStepIntact(m)) /\ WF_vars(ReceiverStepIntact(m))
    /\ WF_vars(\E u \in Users : UserPut("A", u))
    /\ SF_vars(Tick)

\* ------------------------------------------------------------ claims
Items(h) == {h[i] : i \in 1..Len(h)}

\* a step that takes an item out of the send queue of m, and the item taken
Dequeues(m) == Len(send_queue'[m]) < Len(send_queue[m])
Taken(m) == Items(send_queue[m]) \ Items(send_queue'[m])

\* C1: when the inbound handler is about to hand a non-Ack message with
\* need_ack = true to the observers, it has enqueued exactly one Ack with
\* ack_id = the message's packet_id; it enqueues none for a message with
\* need_ack = false and never more than one.
C1_AckBeforeDispatch ==
    \A m \in Mgrs :
        /\ receiver[m].acks <= 1
        /\ receiver[m].pc = "dispatch" =>
               receiver[m].acks = (IF GetBase(receiver[m].packet).need_ack THEN 1 ELSE 0)
        /\ receiver[m].pc \in {"handle", "send_ack", "put_ack"} => receiver[m].acks = 0

\* the handler stands before the dispatch of a need_ack message and its Ack
\* is in the send queue
C1_Witness ==
    /\ receiver["A"].pc = "dispatch"
    /\ GetBase(receiver["A"].packet).need_ack
    /\ \E x \in Items(send_queue["A"]) : IsAckFor(x.packet, receiver["A"].packet)

\* C2: no message is transmitted more than max_retries + 1 times, and a
\* message for which the timeout observer fired was transmitted exactly
\* that often or less before it fired.
C2_TransmissionBound ==
    \A m \in Mgrs : \A pid \in DOMAIN tx[m] : tx[m][pid] <= MaxRetries + 1

\* a message went through every retry and reached the timeout observer
C2_Witness ==
    \E pid \in DOMAIN tx["A"] :
        tx["A"][pid] = MaxRetries + 1 /\ Count(timed_out["A"], pid) = 1

\* C3 (as claimed): an outstanding entry for which no Ack can arrive any
\* more (the peer sends nothing further and the receiver is between
\* frames) is eventually removed with the timeout observer invoked exactly
\* once for it.
NoFrameToCome(m) == budget = 0 /\ receiver[m].pc \in {"idle", "dead"}

C3_RetryExhaustion ==
    \A pid \in 1..MaxOps :
        (pid \in Keys(outstanding_acks["A"]) /\ NoFrameToCome("A"))
            ~> (pid \notin Keys(outstanding_acks["A"]) /\ Count(timed_out["A"], pid) = 1)

\* C4: the step of the inbound handler that deletes the entry of an Ack's
\* ack_id leaves exactly the other entries, unchanged and in their order.
C4_AckRemovesOnlyItsEntry ==
    [][\A m \in Mgrs :
         (receiver[m].pc = "ack_del" /\ receiver'[m].pc # "ack_del") =>
            LET Other(e) == e.pid # receiver[m].packet.ack_id IN
            /\ outstanding_acks'[m] = SelectSeq(outstanding_acks[m], Other)
            /\ receiver[m].packet.ack_id \notin Keys(outstanding_acks'[m])]_vars

\* the handler stands before the deletion of an entry while the table
\* holds another entry
C4_Witness ==
    /\ receiver["A"].pc = "ack_del"
    /\ receiver["A"].packet.ack_id \in Keys(outstanding_acks["A"])
    /\ Len(outstanding_acks["A"]) >= 2

\* C5 (as claimed): B's observers get a message of A at most once.
C5_AtMostOnce ==
    \A pid \in DOMAIN delivered["B"] : delivered["B"][pid] <= 1

\* C5 (amended): B's observers get a message of A at most once for each
\* transmission of it by A, so at most max_retries + 1 times.
C5_OncePerTransmission ==
    \A pid \in DOMAIN delivered["B"] :
        /\ delivered["B"][pid] <= Count(tx["A"], pid)
        /\ delivered["B"][pid] <= MaxRetries + 1

\* a retransmitted message was delivered a second time
C5_Witness ==
    \E pid \in DOMAIN delivered["B"] :
        delivered["B"][pid] = MaxRetries + 1 /\ Count(tx["A"], pid) = MaxRetries + 1

\* C6: generate_packet_id returns values in 1 .. MAX_PACKET_ID, never 0;
\* each call returns one more than the call before it, and the call after
\* the one that returned MAX_PACKET_ID returns 1.
C6_IdSequence ==
    \A i \in 1..Len(issued) :
        /\ issued[i] >= 1 /\ issued[i] <= MAX_PACKET_ID
        /\ i > 1 => issued[i] = (IF issued[i - 1] = MAX_PACKET_ID THEN 1 ELSE issued[i - 1] + 1)

\* the wrap happened: MAX_PACKET_ID was returned and the next call returned 1
C6_Witness ==
    \E i \in 1..Len(issued) - 1 : issued[i] = MAX_PACKET_ID /\ issued[i + 1] = 1

\* C7: the values concurrent callers of generate_packet_id obtain are
\* pairwise distinct (the runs stay inside one wrap window).
C7_IdsDistinct ==
    \A i, j \in 1..Len(issued) : i # j => issued[i] # issued[j]

\* both threads hold a value each has obtained while the other was calling:
\* one waits for the lock the other holds, after both have been served before
C7_Witness ==
    /\ Len(issued) >= 3
    /\ \E t, o \in IdThreads :
         /\ t # o /\ id_lock = t /\ id_thread[o].pc = "idle"
         /\ id_thread[o].calls >= 1 /\ id_thread[o].calls < MaxCalls
         /\ id_thread[t].calls >= 2


\* C8: every item of the send queue has priority 0 exactly when its message
\* has need_ack = true, and the sender never takes a message with
\* need_ack = false out of a queue that holds one with need_ack = true.
PriorityByNeedAck(item) == (item.priority = 0) <=> GetBase(item.packet).need_ack

C8_PriorityClasses ==
    /\ [](\A m \in Mgrs :
            /\ \A x \in Items(send_queue[m]) : PriorityByNeedAck(x)
            /\ \A u \in Users : user[m][u] # None => PriorityByNeedAck(user[m][u]))
    /\ [][\A m \in Mgrs :
            Dequeues(m) =>
                \A x \in Taken(m) :
                    ~GetBase(x.packet).need_ack =>
                        \A y \in Items(send_queue[m]) : ~GetBase(y.packet).need_ack]_vars

\* the sender is about to dequeue from a queue in which a message with
\* need_ack = false was put before one with need_ack = true
C8_Witness ==
    /\ sender["A"].pc = "idle"
    /\ \E x, y \in Items(send_queue["A"]) :
         /\ ~GetBase(x.packet).need_ack /\ GetBase(y.packet).need_ack
         /\ x.seq < y.seq

C10_WorkersSurviveTransportFailure ==
    \A m \in Mgrs :
        /\ ~(sender[m].pc = "dead" /\ sender[m].exc = "OSError")
        /\ ~(receiver[m].pc = "dead" /\ receiver[m].exc = "OSError")

\* ------------------------------------------------------------ claims on the dispatch layer
Regs(l) == {l[x].reg : x \in 1..Len(l)}
CalledRegs(d) == {d.called[x].reg : x \in 1..Len(d.called)}
TimesCalled(d, r) == Cardinality({x \in 1..Len(d.called) : d.called[x].reg = r})

\* the step that ends a dispatch pass, by returning or by an exception
PassEnds == dispatch.pc # "none" /\ dispatch'.pc = "none"

\* the step of the receiver of "A" that handles the message it holds
HandlesUnset ==
    /\ receiver["A"].pc = "handle"
    /\ receiver["A"].packet.kind \notin Variants
    /\ receiver'["A"] # receiver["A"]

\* C11: a decoded message with no known variant set is dropped: no observer
\* is invoked for it and the receiver worker goes on to the next frame.
C11_UnknownVariantDropped ==
    [][HandlesUnset =>
          /\ receiver'["A"].pc = "idle"
          /\ receiver'["A"].exc = "none"
          /\ UNCHANGED <<handlers, dispatch>>]_vars

\* the step in which the dispatch pass calls an observer that raises
CallsRaising ==
    /\ dispatch.pc = "iter"
    /\ dispatch.i < Len(handlers[dispatch.kind])
    /\ CallbackRaises(handlers[dispatch.kind][dispatch.i + 1].cb)
    /\ dispatch' # dispatch

\* C12: an exception of an observer is caught: the pass goes on with the
\* observers after it and the receiver worker keeps running.
C12_ObserverExceptionCaught ==
    [][CallsRaising =>
          /\ receiver'["A"].pc # "dead"
          /\ dispatch'.pc = "iter"
          /\ dispatch'.i = dispatch.i + 1]_vars

\* the step of the one-shot sweep that pops an observer
SweepPops == dispatch.pc = "sweep" /\ handlers' # handlers /\ dispatch' # dispatch

\* C13: a once observer is gone from its list after the first dispatch pass
\* for its variant, and the sweep of the pass removes nothing but once
\* observers invoked in it.
C13_OnceObserverRemoved ==
    [][/\ PassEnds =>
            \A x \in 1..Len(dispatch.snapshot) :
                dispatch.snapshot[x].once =>
                    dispatch.snapshot[x].reg \notin Regs(handlers'[dispatch.kind])
       /\ SweepPops =>
            \E x \in 1..Len(handlers[dispatch.kind]) :
                /\ handlers[dispatch.kind][x].once
                /\ handlers[dispatch.kind][x].reg \in CalledRegs(dispatch)
                /\ handlers'[dispatch.kind] = RemoveAt(handlers[dispatch.kind], x)]_vars

\* C14: at the end of the dispatch pass for a message, every persistent
\* observer registered for its variant has been invoked exactly once, with
\* the packet_id, timestamp and body of the message, and no observer of
\* another variant has been invoked.
C14_PersistentObserverInvoked ==
    [][PassEnds =>
          LET packet == receiver["A"].packet IN
          /\ dispatch.kind = packet.kind
          /\ \A x \in 1..Len(dispatch.called) :
                /\ dispatch.called[x].data.packet_id = packet.packet_id
                /\ dispatch.called[x].data.timestamp = packet.timestamp
                /\ dispatch.called[x].data.body = packet.body
          /\ \A x \in 1..Len(dispatch.snapshot) :
                LET e == dispatch.snapshot[x] IN
                (~e.once /\ e.reg \in Regs(handlers'[dispatch.kind]))
                    => TimesCalled(dispatch, e.reg) = 1]_vars

EarliestWith(l, cb) ==
    LET hits == {x \in 1..Len(l) : l[x].cb = cb} IN
    IF hits = {} THEN 0 ELSE CHOOSE x \in hits : \A y \in hits : x <= y

\* the step in which an unregister call returns or raises
UnregisterEnds == caller.pc \in {"scan", "remove"} /\ caller'.pc = "idle"

\* C16: unregister returns True and removes the earliest entry of the
\* variant with the observer, or returns False with the observer not in the
\* list and nothing changed; the other lists are never changed.
C16_UnregisterFirstMatch ==
    [][UnregisterEnds =>
          LET l == handlers[caller.kind]
              n == EarliestWith(l, caller.cb) IN
          /\ caller'.ret \in {"True", "False"}
          /\ caller'.ret = "True" =>
                /\ n # 0
                /\ handlers' = [handlers EXCEPT ![caller.kind] = RemoveAt(l, n)]
          /\ caller'.ret = "False" => (n = 0 /\ handlers' = handlers)]_vars


\* ------------------------------------------------------------ claims on the life cycle

\* a call of stop has returned
StopReturned == stopper.stops >= 1

\* C17: when a call of stop after start has returned, the sender and the
\* receiver have ended and close has been called, and no worker uses the
\* channel after it was closed.
C17_StopTerminates ==
    /\ StopReturned =>
           /\ threads.sender.pc = "ended"
           /\ threads.receiver.pc = "ended"
           /\ channel.closes >= 1
    /\ ~channel.late_use

\* a step of a call of stop that follows one that returned
LaterStopStep ==
    /\ StopReturned
    /\ stopper.pc # "idle" \/ stopper'.pc # "idle"
    /\ stopper'.pc # stopper.pc

\* C18 (as claimed): a later call of stop changes nothing and does not call
\* close again.
C18_LaterStopNoOp ==
    [][LaterStopStep =>
           /\ stop_event' = stop_event
           /\ threads' = threads
           /\ channel' = channel
           /\ next_packet_id' = next_packet_id
           /\ mgr_vars' = mgr_vars]_vars

\* C18 (amended): a later call of stop leaves the flag set, starts and ends
\* no worker and changes nothing of the manager; it calls close again, which
\* leaves a closed channel closed.
C18_LaterStopClosesAgain ==
    [][LaterStopStep =>
           /\ stop_event /\ stop_event'
           /\ threads' = threads
           /\ channel'.state = channel.state
           /\ channel'.late_use = channel.late_use
           /\ channel'.closes = channel.closes + (IF stopper.pc = "close" THEN 1 ELSE 0)
           /\ next_packet_id' = next_packet_id
           /\ mgr_vars' = mgr_vars]_vars

\* a second call of stop has returned and has called close a second time
C18_Witness ==
    /\ stopper.stops = 2
    /\ channel.closes = 2
    /\ channel.state = "closed"

\* the configurations C19 names
Rejected(cfg) ==
    \/ ~cfg.given
    \/ cfg.given /\ cfg.interface_type = "serial" /\ cfg.port = "none"
    \/ cfg.given /\ cfg.interface_type \notin {"serial", "simulated"}

\* C19: construction with no configuration, with serial and no port, or with
\* an unknown interface type raises ValueError; no channel is made or
\* connected and no worker is ever started.
C19_ConstructionFails ==
    (ctor # "new" /\ Rejected(config)) =>
        /\ ctor = "ValueError"
        /\ channel = ChannelInit
        /\ threads = ThreadsInit
        /\ stopper = StopperInit

\* a serial configuration with no port was rejected, while somewhere a valid
\* one would have been started
C19_Witness ==
    /\ ctor = "ValueError"
    /\ config = RadioConfig("serial", "none")


\* ------------------------------------------------------------ claims on the send API

\* the variant each send method is for
MethodVariant ==
    [send_sync_request |-> "syn_rqt", send_sync_response |-> "syn_rsp",
     send_config_request |-> "cfg_rqt", send_config_response |-> "cfg_rsp",
     send_gps_data |-> "gps_pkt", send_ping_data |-> "ping_pkt",
     send_loc_est_data |-> "loc_pkt", send_start_request |-> "str_rqt",
     send_start_response |-> "str_rsp", send_stop_request |-> "stp_rqt",
     send_stop_response |-> "stp_rsp", send_error |-> "err_pkt"]

\* SyncRequest, ConfigRequest, StartRequest, StopRequest
AckRequesting == {"syn_rqt", "cfg_rqt", "str_rqt", "stp_rqt"}

QueueIds(q) == {q[i].packet.packet_id : i \in 1..Len(q)}

\* the step in which a send method returns or raises
SendEnds == api.pc = "put" /\ api'.pc = "idle"

\* what a send method has done to the queue q, leaving q2, when it ends with
\* ret: one message more, of the variant of the method, with a fresh nonzero
\* id and the need_ack of the variant, and ret is the header of that message
SendDone(method, q, q2, rank, ret) ==
    LET new == {i \in 1..Len(q2) : q2[i].seq = rank} IN
    /\ Len(q2) = Len(q) + 1
    /\ \A j \in 1..Len(q) : \E i \in 1..Len(q2) : q2[i] = q[j]
    /\ Cardinality(new) = 1
    /\ \A i \in new :
         LET packet == q2[i].packet IN
         /\ packet.kind = MethodVariant[method]
         /\ packet.kind # "ack_pkt"
         /\ packet.need_ack <=> packet.kind \in AckRequesting
         /\ packet.packet_id >= 1 /\ packet.packet_id <= MAX_PACKET_ID
         /\ packet.packet_id \notin QueueIds(q)
         /\ ret.packet_id = packet.packet_id
         /\ ret.need_ack = packet.need_ack
         /\ ret.timestamp = packet.timestamp

\* C20: each of the twelve send methods allocates a fresh nonzero id, sets
\* need_ack for the four requests only, enqueues one message of its variant
\* and returns that message's (packet_id, need_ack, timestamp); no Ack is
\* enqueued.
C20_SendContract ==
    [][SendEnds =>
           /\ api'.ret.status = "returned"
           /\ SendDone(api.method, send_queue["A"], send_queue'["A"], puts', api'.ret)]_vars

\* ------------------------------------------------------------ claims on the codec

\* the value of four bytes, the first the most significant
BigEndian4(bs) == ((bs[1] * 256 + bs[2]) * 256 + bs[3]) * 256 + bs[4]

\* C21: decoding the frame of a message gives the message back, variant,
\* header and body; the frame begins with AA 55 and the length of its body
\* in four bytes, big-endian.
C21_RoundTrip ==
    /\ (codec.op = "decoded" /\ codec.via = "encode") => (codec.ok /\ codec.out = codec.msg)
    /\ codec.via = "encode" =>
           /\ Len(codec.data) >= 8
           /\ SubSeq(codec.data, 1, 2) = <<170, 85>>
           /\ BigEndian4(SubSeq(codec.data, 3, 6)) = Len(codec.data) - 8

\* the Ack of the codec test went through encode and decode
C21_Witness ==
    /\ codec.op = "decoded" /\ codec.via = "encode"
    /\ codec.msg = CodecPacket("ack_pkt", 1234, FALSE, 999999, 5678)
    /\ codec.out = codec.msg
    /\ Len(codec.data) > 8

\* a changed frame has been given to decode_packet
DecodedAfter(vias) == codec.op = "decoded" /\ codec.via \in vias

\* C22 (as claimed): a frame with one byte of its sync marker or of its
\* checksum changed is rejected, and so is every frame whose two checksum
\* bytes were replaced by 00 00.
C22_CorruptionRejected ==
    DecodedAfter({"sync", "checksum", "zero"}) => ~codec.ok

\* C22 (amended): a frame with one byte of its sync marker or of its checksum
\* changed is rejected; a frame whose checksum bytes were replaced by 00 00
\* is rejected unless its checksum is 00 00, and then it is the frame itself
\* and is decoded to its message.
C22_ChangedFrameRejected ==
    /\ DecodedAfter({"sync", "checksum"}) => (codec.data # codec.frame /\ ~codec.ok)
    /\ DecodedAfter({"zero"}) =>
           /\ codec.ok <=> codec.data = codec.frame
           /\ codec.ok => codec.out = codec.msg

\* a frame with the checksum 00 00 was decoded after the replacement, and a
\* frame with another checksum would have been rejected
C22_Witness ==
    /\ DecodedAfter({"zero"})
    /\ codec.data = codec.frame
    /\ codec.ok
    /\ codec.msg.packet_id = 6000

\* the length of data is 2 + 4 + L + 2 for the L in its bytes 3..6
LengthAsDeclared(data) ==
    /\ Len(data) >= 8
    /\ data[3] = 0 /\ data[4] = 0
    /\ data[5] * 256 + data[6] = Len(data) - 8

\* C23: decode_packet returns None for every byte string shorter than 8
\* bytes and for every one whose length is not 2 + 4 + L + 2, longer or
\* shorter; it does not raise.
C23_LengthMismatchRejected ==
    (codec.op = "decoded" /\ ~LengthAsDeclared(codec.data)) => (~codec.ok /\ codec.out = NoPacket)

\* a frame followed by more bytes was rejected, as a frame cut short and
\* the six bytes AA 55 00 00 00 55 are in other runs
C23_Witness ==
    /\ codec.op = "decoded" /\ codec.via = "extend"
    /\ Len(codec.data) > Len(codec.frame)
    /\ SubSeq(codec.data, 1, Len(codec.frame)) = codec.frame
    /\ ~codec.ok

\* the reference definition of CRC-16/CCITT-FALSE: a shift register of 16
\* bits, all set at the start, that takes the bits of the input one at a
\* time, the most significant bit of each byte first, with the feedback of
\* x^16 + x^12 + x^5 + 1
RefPolyTaps == {5, 12}
RefShift[reg \in [0..15 -> {0, 1}], bit \in {0, 1}] ==
    LET feedback == (reg[15] + bit) % 2 IN
    [i \in 0..15 |-> IF i = 0 THEN feedback
                     ELSE IF i \in RefPolyTaps THEN (reg[i - 1] + feedback) % 2
                     ELSE reg[i - 1]]
RefBit(data, n) == (data[(n \div 8) + 1] \div (2 ^ (7 - (n % 8)))) % 2
RefRegister[data \in Seq(Nat), n \in Nat] ==
    IF n = 0 THEN [i \in 0..15 |-> 1] ELSE RefShift[RefRegister[data, n - 1], RefBit(data, n - 1)]
RefValue[reg \in [0..15 -> {0, 1}], i \in Nat] ==
    IF i > 15 THEN 0 ELSE reg[i] * (2 ^ i) + RefValue[reg, i + 1]
CrcReference(data) == RefValue[RefRegister[data, 8 * Len(data)], 0]

\* C24: _calculate_crc16_ccitt is CRC-16/CCITT-FALSE: its result fits in 16
\* bits, is that of the reference definition, and is 0x29B1 for "123456789".
C24_CrcIsCcittFalse ==
    codec.op = "crc" =>
        /\ codec.crc \in 0..65535
        /\ codec.crc = CrcReference(codec.data)
        /\ codec.data = <<49, 50, 51, 52, 53, 54, 55, 56, 57>> => codec.crc = 10673

\* the checksum of the check string has been computed
C24_Witness ==
    /\ codec.op = "crc"
    /\ codec.data = <<49, 50, 51, 52, 53, 54, 55, 56, 57>>
    /\ codec.crc = 10673

\* ------------------------------------------------------------ claims on the outstanding table
\* the Acks of the inbound handler that are on their way to the channel
IsHandlerAck(item) == item # None /\ item.packet.kind = "ack_pkt"
AckItems(m) ==
    {send_queue[m][i] : i \in {j \in 1..Len(send_queue[m]) : IsHandlerAck(send_queue[m][j])}}
        \cup (IF IsHandlerAck(receiver[m].item) THEN {receiver[m].item} ELSE {})

\* no Ack is tracked: not in the table, not about to be put there
NoAckTracked(m) ==
    /\ \A i \in 1..Len(outstanding_acks[m]) : outstanding_acks[m][i].packet.kind # "ack_pkt"
    /\ sender[m].pc = "track" => sender[m].packet.kind # "ack_pkt"

\* a step retransmits only, and the timeout observer is called only for, a
\* message that has an entry in the table
OnlyTrackedRepeat(m) ==
    /\ \A pid \in DOMAIN tx'[m] :
          (Count(tx[m], pid) >= 1 /\ tx'[m][pid] > Count(tx[m], pid))
              => (pid \in Keys(outstanding_acks[m]))
    /\ \A pid \in DOMAIN timed_out'[m] :
          timed_out'[m][pid] > Count(timed_out[m], pid) => pid \in Keys(outstanding_acks[m])

\* C25: every Ack the inbound handler generates has need_ack = false and is
\* enqueued with priority 1; no Ack has an entry in the outstanding table,
\* and since only messages with an entry are retransmitted or reported to
\* the timeout observer, no Ack is.
C25_AcksNotTracked ==
    /\ [](\A it \in AckItems("A") : ~GetBase(it.packet).need_ack /\ it.priority = 1)
    /\ []NoAckTracked("A")
    /\ [][OnlyTrackedRepeat("A")]_vars

\* an Ack of the handler waits in the queue while a user message is tracked
C25_Witness ==
    /\ \E i \in 1..Len(send_queue["A"]) : IsHandlerAck(send_queue["A"][i])
    /\ outstanding_acks["A"] # <<>>
    /\ receiver["A"].pc = "dispatch"

\* C26: each entry of the outstanding table is keyed by the packet_id of
\* its own message; that message asks for an Ack and has been passed to
\* the channel at least once.
C26_EntriesAreSentAckRequests ==
    \A i \in 1..Len(outstanding_acks["A"]) :
        LET info == outstanding_acks["A"][i] IN
        /\ info.pid = GetBase(info.packet).packet_id
        /\ GetBase(info.packet).need_ack
        /\ Count(tx["A"], info.pid) >= 1

\* two messages are tracked, one of them retransmitted
C26_Witness ==
    /\ Len(outstanding_acks["A"]) = 2
    /\ \E i \in 1..2 : outstanding_acks["A"][i].retries >= 1

\* the entry of pid has reached ack_timeout since its last transmission
Stale(m, pid) ==
    \E i \in 1..Len(outstanding_acks[m]) :
        outstanding_acks[m][i].pid = pid /\ Due(outstanding_acks[m][i])

\* C27: retries are not starved by new traffic: an entry whose age has
\* reached ack_timeout is eventually retransmitted (its age starts again)
\* or timed out (it leaves the table), also while new messages keep being
\* enqueued.  A sender worker that an exception has ended is left aside.
C27_RetriesNotStarved ==
    \A pid \in 1..MaxOps :
        Stale("A", pid) ~> (~Stale("A", pid) \/ sender["A"].pc = "dead")

\* the receiver has found the entry of the Ack it handles (line 141) and
\* has not deleted it yet (line 142)
AckInHand(m, pid) == receiver[m].pc = "ack_del" /\ receiver[m].packet.ack_id = pid

\* the timeout observer is not called for a message whose Ack is in hand
NoTimeoutOfAcked(m) ==
    \A pid \in DOMAIN timed_out'[m] :
        timed_out'[m][pid] > Count(timed_out[m], pid) => ~AckInHand(m, pid)

\* C28: the accesses of the sender worker and of the receiver worker to the
\* outstanding table exclude each other: no removal on Ack makes the retry
\* sweep fail (RuntimeError of the iteration), makes the sender or the
\* receiver remove an entry that is gone (KeyError), or lets the timeout
\* observer be called for a message whose Ack is being processed.
C28_TableAccessExclusive ==
    /\ [](sender["A"].exc \notin {"RuntimeError", "KeyError"})
    /\ [](receiver["A"].exc # "KeyError")
    /\ [][NoTimeoutOfAcked("A")]_vars

\* ------------------------------------------------------------ claims on the observer lists
\* the step in which a dispatch pass returns, no observer having raised
PassReturns == dispatch.pc = "sweep" /\ dispatch'.pc = "none" /\ receiver'["A"].pc = "idle"

\* every observer that was in the list when the pass began and is in it
\* when the pass returns has been invoked once, and none twice
SnapshotInvoked ==
    \A x \in 1..Len(dispatch.snapshot) :
        LET e == dispatch.snapshot[x] IN
        /\ TimesCalled(dispatch, e.reg) <= 1
        /\ e.reg \in Regs(handlers[dispatch.kind]) => TimesCalled(dispatch, e.reg) = 1

\* the one-shot sweep removes a once observer
PopsOnce ==
    \E x \in 1..Len(handlers[dispatch.kind]) :
        /\ handlers[dispatch.kind][x].once
        /\ handlers'[dispatch.kind] = RemoveAt(handlers[dispatch.kind], x)

\* C29: a dispatch pass works on a snapshot of the observer list: whatever
\* register and unregister calls run during the pass, no registered observer
\* is skipped or invoked twice, the one-shot sweep removes no persistent
\* observer, and the sweep does not fail.
C29_DispatchOnSnapshot ==
    /\ [](receiver["A"].exc # "IndexError")
    /\ [][SweepPops => PopsOnce]_vars
    /\ [][PassReturns => SnapshotInvoked]_vars

\* ------------------------------------------------------------ claims on the frame reader
\* C30: one call of receive_packet has a single deadline: it has returned
\* when read_timeout has passed since it began (the poll interval of 10 ms
\* is shorter than a step of the model's clock), whichever of its four
\* reads it is in.
C30_SingleDeadline == threads.receiver.elapsed <= ReadTimeout

\* the bytes the call of receive_packet has read so far
ReadSoFar == SubSeq(reader.stream, reader.start + 1, reader.pos)

\* the first two bytes the call read are not the sync marker
SyncDiffers ==
    /\ reader.pos >= reader.start + SYNC_MARKER_LENGTH
    /\ SubSeq(reader.stream, reader.start + 1, reader.start + SYNC_MARKER_LENGTH) # SYNC_MARKER

\* the step in which receive_packet returns
ReceiveReturns == reader.pc = "read" /\ reader'.pc = "idle"

InSweep == sender["A"].pc \in {"sweep", "remove"} /\ sender'["A"] # sender["A"]

\* the retransmissions of the step
Resent == {pid \in DOMAIN tx'["A"] : tx'["A"][pid] > Count(tx["A"], pid)}

RetriesOf(d, pid) == d[IndexOf(d, pid)].retries

\* C32: a step of the retry sweep leaves send_queue as it is, nothing put
\* and nothing taken; what it retransmits is a message of the table, passed
\* to the channel, and counted in its retries; no retries counter is
\* lowered.
C32_SweepBypassesQueue ==
    [][InSweep =>
          /\ send_queue' = send_queue
          /\ puts' = puts
          /\ Resent \subseteq Keys(outstanding_acks["A"])
          /\ \A pid \in Keys(outstanding_acks'["A"]) :
                /\ pid \in Keys(outstanding_acks["A"])
                /\ RetriesOf(outstanding_acks'["A"], pid) >=
                      RetriesOf(outstanding_acks["A"], pid) + (IF pid \in Resent THEN 1 ELSE 0)]_vars

\* a message was retransmitted while another message waited in the queue
C32_Witness ==
    /\ send_queue["A"] # <<>>
    /\ sender["A"].pc = "sweep"
    /\ \E i \in 1..Len(outstanding_acks["A"]) :
          /\ outstanding_acks["A"][i].retries = 1
          /\ Count(tx["A"], outstanding_acks["A"][i].pid) = 2

\* ------------------------------------------------------------ claims on incoming Acks
\* the receiver handles an Ack whose ack_id is no key of the table
HandlesUnmatchedAck ==
    /\ receiver["A"].pc = "handle"
    /\ receiver["A"].packet.kind = "ack_pkt"
    /\ receiver["A"].packet.ack_id \notin Keys(outstanding_acks["A"])
    /\ receiver'["A"] # receiver["A"]

\* C33: an incoming Ack that matches no entry of the outstanding table is
\* dropped: the table, the queue and the observer lists stay as they are,
\* no observer and no timeout observer is called, nothing is transmitted,
\* and the receiver worker goes on to the next frame.
C33_UnmatchedAckDiscarded ==
    [][HandlesUnmatchedAck =>
          /\ receiver'["A"].pc = "idle"
          /\ receiver'["A"].exc = "none"
          /\ UNCHANGED <<outstanding_acks, send_queue, puts, handlers, dispatch, delivered,
                         timed_out, tx>>]_vars

\* the receiver holds an Ack for an id that is not in the table, while
\* another message is tracked
C33_Witness ==
    /\ receiver["A"].pc = "handle"
    /\ receiver["A"].packet.kind = "ack_pkt"
    /\ receiver["A"].packet.ack_id \notin Keys(outstanding_acks["A"])
    /\ outstanding_acks["A"] # <<>>

\* the entry of pid in the table of "A"
InfoOf(d, pid) == d[IndexOf(d, pid)]

\* the entries the step takes out of the table
Removed == Keys(outstanding_acks["A"]) \ Keys(outstanding_acks'["A"])

\* C34: the retries of every entry are within 0 .. max_retries; the sweep
\* retransmits an entry only when its age has reached ack_timeout and its
\* retries are below max_retries, and then adds exactly 1 to retries and
\* starts its age again; it removes an entry only when its age has reached
\* ack_timeout and its retries equal max_retries.
C34_RetryAccounting ==
    /\ [](\A i \in 1..Len(outstanding_acks["A"]) :
             outstanding_acks["A"][i].retries \in 0..MaxRetries)
    /\ [][InSweep =>
            /\ \A pid \in Resent :
                  LET before == InfoOf(outstanding_acks["A"], pid)
                      after == InfoOf(outstanding_acks'["A"], pid) IN
                  /\ Due(before) /\ before.retries < MaxRetries
                  /\ after.retries = before.retries + 1
                  /\ after.age = 0
            /\ \A pid \in Removed :
                  LET before == InfoOf(outstanding_acks["A"], pid) IN
                  Due(before) /\ before.retries = MaxRetries]_vars

\* an entry retransmitted max_retries times has been removed by the sweep
\* while another entry stays
C34_Witness ==
    /\ \E pid \in DOMAIN timed_out["A"] :
          /\ Count(tx["A"], pid) = MaxRetries + 1
          /\ pid \notin Keys(outstanding_acks["A"])
    /\ outstanding_acks["A"] # <<>>

\* C35: once the receiver has processed an Ack for a message that the
\* sender had passed to the channel, the message is not retransmitted and
\* the timeout observer is not called for it, also when the Ack came
\* between the transmission and the insertion of the entry.
C35_AckedNeverRetried ==
    [][\A pid \in receiver["A"].acked :
          /\ Count(tx'["A"], pid) = Count(tx["A"], pid)
          /\ Count(timed_out'["A"], pid) = Count(timed_out["A"], pid)]_vars

\* a step of the receiver that handles an Ack
HandlesAck ==
    /\ receiver["A"].pc \in {"handle", "ack_del"}
    /\ receiver["A"].packet.kind = "ack_pkt"
    /\ receiver'["A"] # receiver["A"]

\* C36: handling a received Ack, whatever its need_ack, enqueues no Ack
\* (no packet id is taken, nothing is put on the queue) and calls no user
\* observer; only messages that are not Acks are answered or dispatched, so
\* an Ack is never answered by an Ack.
C36_AckNeverAnswered ==
    /\ [][HandlesAck =>
            /\ receiver'["A"].pc \in {"ack_del", "idle", "dead"}
            /\ receiver'["A"].item = None
            /\ UNCHANGED <<next_packet_id, send_queue, puts, delivered>>]_vars
    /\ [](receiver["A"].pc \in {"send_ack", "put_ack", "dispatch"}
             => receiver["A"].packet.kind # "ack_pkt")

\* an Ack that asks for an Ack itself has been processed
C36_Witness ==
    /\ receiver["A"].pc = "ack_del"
    /\ receiver["A"].packet.need_ack
    /\ receiver["A"].acked # {}


\* ------------------------------------------------------------ claims on the send queue
\* the message with this packet_id waits in the send queue of A
InQueue(pid) == \E x \in Items(send_queue["A"]) : GetBase(x.packet).packet_id = pid

\* C37 (as claimed): every step that takes something out of the send queue
\* takes one item and passes it to send_packet, and every message in the
\* send queue is eventually taken out of it.
C37_QueueDelivers ==
    /\ [][Dequeues("A") =>
            /\ Cardinality(Taken("A")) = 1
            /\ Len(send_queue'["A"]) = Len(send_queue["A"]) - 1
            /\ sender'["A"].exc # "TypeError"]_vars
    /\ \A pid \in 1..MaxOps : InQueue(pid) ~> ~InQueue(pid)


\* a step in which a caller's put of enqueue_packet returns or raises
Enqueues(u) == user["A"][u] # None /\ user'["A"][u] = None

\* C39 (as claimed): a tie on (priority, enqueue time) makes neither the
\* put of enqueue_packet nor the sender's get raise: every put returns
\* normally and every dequeue hands the sender an item.
C39_TieDoesNotFail ==
    [][/\ \A u \in Users : Enqueues(u) => ~PutRaises("A", user["A"][u])
       /\ Dequeues("A") => ~HeapPop(send_queue["A"]).raised]_vars


\* ------------------------------------------------------------ claims on two managers
\* the ack-requiring message with this packet_id has just been passed to
\* send_packet by A
JustSent(pid) ==
    sender["A"].pc = "track" /\ GetBase(sender["A"].packet).packet_id = pid

\* C38 (as claimed): over a channel that delivers every frame intact, an
\* ack-requiring message sent by A reaches B's observers, and A handles
\* B's Ack for it unless A's retransmissions were exhausted first; once A
\* has handled the Ack, the entry is out of A's outstanding table for good
\* and A's timeout observer is not invoked for the message.
C38_ReliableExchange ==
    /\ \A pid \in 1..MaxOps : JustSent(pid) ~> Count(delivered["B"], pid) >= 1
    /\ \A pid \in 1..MaxOps :
          JustSent(pid) ~> (pid \in receiver["A"].acked \/ Count(timed_out["A"], pid) >= 1)
    /\ [](receiver["A"].acked \cap Keys(outstanding_acks["A"]) = {})
    /\ [][\A pid \in receiver["A"].acked :
             Count(timed_out'["A"], pid) = Count(timed_out["A"], pid)]_vars
====
